---------------------------- MODULE Spec2Model ----------------------------
(***************************************************************************)
(* A model of the language_tutor core: the structured response parser      *)
(* (exercise.py), the annotated error extractor (exercise.py) and the      *)
(* error-to-source locator (feedback_handler.py).                          *)
(*                                                                         *)
(* A Python str is modelled as a sequence of one-character strings, so     *)
(* that searching, trimming and case folding are computed character by     *)
(* character as the code computes them.                                    *)
(***************************************************************************)
EXTENDS Naturals, Integers, Sequences, FiniteSets, TLC

VARIABLES
    pc,                     \* position of the call: "idle", "awaiting",
                            \* "responded", "done"
    fn,                     \* the function that was called ("none" before)
    text,                   \* extract_content_from_xml: argument text
    tag_name,               \* extract_content_from_xml: argument tag_name
    default,                \* extract_content_from_xml: argument default
    xml_result,             \* extract_content_from_xml: returned value
    llm_result,             \* what llm.completion gave: status "none", "ok"
                            \* or "error", and the message content
    exercise_text,          \* generate_exercise: exercise_text
    hints,                  \* generate_exercise / generate_custom_hints: hints
    outcome,                \* how the call ended: "none", "returned", "raised"
    backend_mistakes,       \* what the backend wrote as the mistakes section:
                            \* its kind ("free", "bullets", "none") and bullets
    backend_style,          \* the same for the stylistic_errors section
    content,                \* extract_annotated_errors: argument content
    annotations,            \* extract_annotated_errors: returned list
    mistakes_list,          \* check_writing: mistakes_list
    style_errors_list,      \* check_writing: style_errors_list
    recommendations,        \* check_writing: recommendations
    doc_text,               \* _find_and_highlight_error: doc.toPlainText()
    error_text,             \* _find_and_highlight_error: argument error_text
    cursor,                 \* _find_and_highlight_error: the resulting cursor
                            \* (null, or anchor and position as offsets)
    located_by,             \* the step that set the cursor: "none", "exact",
                            \* "relaxed"
    writing_input,          \* FeedbackHandler.writing_input: the widget's
                            \* document, text cursor and scroll bar value
    grammar_errors,         \* FeedbackHandler.grammar_errors
    style_errors,           \* FeedbackHandler.style_errors
    original_text,          \* FeedbackHandler.original_text
    current_highlighted_error,  \* FeedbackHandler.current_highlighted_error
    pre_highlight_html,     \* FeedbackHandler._pre_highlight_html
    pre_highlight_cursor,   \* FeedbackHandler._pre_highlight_cursor
    pre_highlight_scroll,   \* FeedbackHandler._pre_highlight_scroll
    html_before,            \* history: the HTML of the writing input when it
                            \* was last set with no error highlighted
    environ,                \* os.environ: the four variables the adapters use
    litellm,                \* the litellm module's api_key and base_url
    openai_llm,             \* the OpenAILLM instance's _api_key and _base_url
    adapter,                \* the adapter the last call was made on
    environ_at_construction,    \* history: os.environ when the adapters
                            \* were constructed
    last_set,               \* history: for each adapter the last key and
                            \* the last base URL given to its setters
    model,                  \* completion: argument model
    price_table,            \* config.MODEL_PRICE_PER_TOKEN
    requests,               \* completion: backend requests made by the call
    response,               \* completion: what the backend answered
    exception,              \* the exception that left the call, if any
    cost,                   \* completion: the returned cost
    core,                   \* the call of a core function (generate_exercise,
                            \* generate_custom_hints, check_writing,
                            \* answer_question): completion calls made, how
                            \* it ended, what it returned
    state,                  \* AppController.state: the fields the handlers
                            \* read and write
    controller,             \* AppController: status message and buttons
    qa_dialog,              \* QADialog: question, displays, send button
    calls,                  \* the completion calls issued so far, in order:
                            \* key and base URL at issuance, the request
                            \* the library built, the response
    openai_module,          \* the openai module's api_key and api_base
    disk,                   \* the state file: whether it exists, its
                            \* format and its content
    loaded_state,           \* LanguageTutorState.load: the returned state
    markdown,               \* LanguageTutorState.to_markdown: the result
    tasks,                  \* the coroutines run_async has started and
                            \* not yet seen done, innermost last
    exercise_tables         \* AppController.exercise_types and
                            \* exercise_definitions

vars == <<pc, fn, text, tag_name, default, xml_result, llm_result,
          exercise_text, hints, outcome, backend_mistakes, backend_style,
          content, annotations, mistakes_list,
          style_errors_list, recommendations, doc_text, error_text, cursor,
          located_by, writing_input, grammar_errors, style_errors,
          original_text, current_highlighted_error, pre_highlight_html,
          pre_highlight_cursor, pre_highlight_scroll, html_before,
          environ, litellm, openai_llm, adapter, environ_at_construction,
          last_set, model, price_table, requests, response, exception, cost,
          core, state, controller, qa_dialog, calls, openai_module, disk,
          loaded_state, markdown, tasks, exercise_tables>>

xmlVars == <<text, tag_name, default, xml_result>>
genVars == <<exercise_text, hints>>
annVars == <<backend_mistakes, backend_style, content, annotations>>
chkVars == <<mistakes_list, style_errors_list, recommendations>>
locVars == <<doc_text, error_text, cursor, located_by>>
hdlVars == <<writing_input, grammar_errors, style_errors, original_text,
             current_highlighted_error, pre_highlight_html,
             pre_highlight_cursor, pre_highlight_scroll, html_before>>
adpVars == <<environ, litellm, openai_llm, adapter, environ_at_construction,
             last_set>>
cmpVars == <<model, price_table, requests, response, exception, cost>>
ctlVars == <<core, state, controller, qa_dialog>>
cncVars == <<calls, openai_module>>
fileVars == <<disk, loaded_state, markdown>>
slotVars == <<tasks, exercise_tables>>
extVars == <<cncVars, fileVars, slotVars>>

-----------------------------------------------------------------------------
(* Python str primitives                                                   *)

EmptyStr == << >>

UpperCase == <<"A","B","C","D","E","F","G","H","I","J","K","L","M",
               "N","O","P","Q","R","S","T","U","V","W","X","Y","Z">>
LowerCase == <<"a","b","c","d","e","f","g","h","i","j","k","l","m",
               "n","o","p","q","r","s","t","u","v","w","x","y","z">>

\* the lower-case letter of each upper-case letter
LowerMap ==
    [c \in {UpperCase[i] : i \in 1..26} |->
        LowerCase[CHOOSE i \in 1..26 : UpperCase[i] = c]]

\* str.lower() on one character
LowerChar(c) == IF c \in DOMAIN LowerMap THEN LowerMap[c] ELSE c

\* str.lower()
Lower(s) == [i \in 1..Len(s) |-> LowerChar(s[i])]

\* str.isspace() on one character (the characters \s and str.strip() treat as blank)
IsSpace(c) == c \in {" ", "\n", "\t", "\r"}

Min(S) == CHOOSE x \in S : \A y \in S : x <= y
Max(S) == CHOOSE x \in S : \A y \in S : x >= y

\* str.strip(): s without its leading and trailing whitespace
Strip(s) ==
    LET keep == {i \in 1..Len(s) : ~IsSpace(s[i])}
    IN  IF keep = {} THEN EmptyStr ELSE SubSeq(s, Min(keep), Max(keep))

\* whether pat occurs in s at (1-based) position i, compared as written
StartsAt(s, pat, i) ==
    /\ i >= 1
    /\ i + Len(pat) - 1 <= Len(s)
    /\ \A k \in 1..Len(pat) : s[i + k - 1] = pat[k]

\* the same under re.IGNORECASE
StartsAtIgnoreCase(s, pat, i) ==
    /\ i >= 1
    /\ i + Len(pat) - 1 <= Len(s)
    /\ \A k \in 1..Len(pat) : LowerChar(s[i + k - 1]) = LowerChar(pat[k])

\* the first position >= from at which pat occurs in s, 0 when there is none
Find(s, pat, from) ==
    LET hits == {i \in from..(Len(s) + 1) : StartsAt(s, pat, i)}
    IN  IF hits = {} THEN 0 ELSE Min(hits)

FindIgnoreCase(s, pat, from) ==
    LET hits == {i \in from..(Len(s) + 1) : StartsAtIgnoreCase(s, pat, i)}
    IN  IF hits = {} THEN 0 ELSE Min(hits)

\* the concatenation of a sequence of strings
RECURSIVE Concat(_)
Concat(ps) == IF ps = << >> THEN EmptyStr ELSE Head(ps) \o Concat(Tail(ps))

\* every concatenation of at most n strings taken from pieces
Texts(pieces, n) ==
    {Concat(ps) : ps \in UNION {[1..k -> pieces] : k \in 0..n}}

-----------------------------------------------------------------------------
(* exercise.py: extract_content_from_xml                                   *)

OpenTag(name)  == <<"<">> \o name \o <<">">>
CloseTag(name) == <<"<", "/">> \o name \o <<">">>

NoneDot == <<"n","o","n","e",".">>

\* re.search(f"<{tag_name}>(.*?)</{tag_name}>", text, re.DOTALL | re.IGNORECASE):
\* the leftmost opening tag and the first closing tag after it; <<0, 0>> when
\* there is no match, otherwise <<first, last>> positions of group(1)
\* the same with a greedy group: up to the last closing tag
XmlSearch_Greedy(t, name) ==
    LET open  == FindIgnoreCase(t, OpenTag(name), 1)
        closes == IF open = 0 THEN {}
                  ELSE {k \in (open + Len(OpenTag(name)))..Len(t) :
                           StartsAtIgnoreCase(t, CloseTag(name), k)}
    IN  IF closes = {} THEN <<0, 0>>
        ELSE <<open + Len(OpenTag(name)), Max(closes) - 1>>

XmlSearch(t, name) ==
    LET open  == FindIgnoreCase(t, OpenTag(name), 1)
        close == IF open = 0 THEN 0
                 ELSE FindIgnoreCase(t, CloseTag(name), open + Len(OpenTag(name)))
    IN  IF open = 0 \/ close = 0 THEN <<0, 0>>
        ELSE <<open + Len(OpenTag(name)), close - 1>>

\* the same with the sentinel compared as written (content != "none.")
extract_content_from_xml_CaseSensitiveNone(t, name, dflt) ==
    LET m == XmlSearch(t, name)
    IN  IF m = <<0, 0>> THEN dflt
        ELSE LET c == Strip(SubSeq(t, m[1], m[2]))
             IN  IF c # EmptyStr /\ c # NoneDot THEN c ELSE dflt

extract_content_from_xml(t, name, dflt) ==
    LET m == XmlSearch(t, name)
    IN  IF m = <<0, 0>> THEN dflt
        ELSE LET c == Strip(SubSeq(t, m[1], m[2]))
             IN  IF c # EmptyStr /\ Lower(c) # NoneDot THEN c ELSE dflt


-----------------------------------------------------------------------------
(* exercise.py: extract_annotated_errors                                   *)

TextOpen == <<"<","t","e","x","t",">">>
TextClose == <<"<","/","t","e","x","t",">">>

\* \s* taken greedily from position p: the first position >= p that holds no
\* whitespace (Len(c) + 1 when the rest is blank)
SkipSpaces(c, p) ==
    LET stops == {q \in p..Len(c) : ~IsSpace(c[q])}
    IN  IF stops = {} THEN Len(c) + 1 ELSE Min(stops)

\* the lookahead (?=$|\n\s*-\s*<text>|\Z) at position p, without re.MULTILINE:
\* the end of the input, the newline that ends the input, or a newline
\* followed by a dash and <text>
ExplanationEndsAt(c, p) ==
    \/ p = Len(c) + 1
    \/ p = Len(c) /\ c[p] = "\n"
    \/ /\ p <= Len(c)
       /\ c[p] = "\n"
       /\ LET dash == SkipSpaces(c, p + 1)
          IN  /\ dash <= Len(c)
              /\ c[dash] = "-"
              /\ StartsAt(c, TextOpen, SkipSpaces(c, dash + 1))

\* one match of <text>(.*?)</text>\s*(.*?)(?=...) searched from position pos:
\* found, the two groups, and the position the match ends before
AnnotationMatch(c, pos) ==
    LET open  == Find(c, TextOpen, pos)
        close == IF open = 0 THEN 0 ELSE Find(c, TextClose, open + Len(TextOpen))
    IN  IF open = 0 \/ close = 0
        THEN [found |-> FALSE, groups |-> <<EmptyStr, EmptyStr>>, next |-> 0]
        ELSE LET expl == SkipSpaces(c, close + Len(TextClose))
                 stop == Min({p \in expl..(Len(c) + 1) : ExplanationEndsAt(c, p)})
             IN  [found |-> TRUE,
                  groups |-> <<SubSeq(c, open + Len(TextOpen), close - 1),
                               SubSeq(c, expl, stop - 1)>>,
                  next |-> stop]

\* re.findall(pattern, content, re.DOTALL): the matches from position pos on
RECURSIVE FindAllAnnotations(_, _)
FindAllAnnotations(c, pos) ==
    LET m == AnnotationMatch(c, pos)
    IN  IF ~m.found THEN << >>
        ELSE <<m.groups>> \o FindAllAnnotations(c, m.next)

\* lines 149-155: both groups trimmed, one leading dash taken off the
\* explanation
CleanAnnotation(g) ==
    LET e == Strip(g[2])
    IN  <<Strip(g[1]),
          IF e # EmptyStr /\ e[1] = "-" THEN Strip(Tail(e)) ELSE e>>

\* the same keeping only the entries whose fragment is not empty
extract_annotated_errors_DropEmptyFragment(c) ==
    IF c = EmptyStr \/ Lower(c) = NoneDot THEN << >>
    ELSE LET matches == FindAllAnnotations(c, 1)
             cleaned == [i \in 1..Len(matches) |-> CleanAnnotation(matches[i])]
             NotEmpty(a) == a[1] # EmptyStr
         IN  SelectSeq(cleaned, NotEmpty)

extract_annotated_errors(c) ==
    IF c = EmptyStr \/ Lower(c) = NoneDot THEN << >>
    ELSE LET matches == FindAllAnnotations(c, 1)
         IN  [i \in 1..Len(matches) |-> CleanAnnotation(matches[i])]

\* the tag names the callers of extract_content_from_xml pass
ExerciseTag == <<"e","x","e","r","c","i","s","e">>
HintsTag == <<"h","i","n","t","s">>
MistakesTag == <<"m","i","s","t","a","k","e","s">>
StyleTag == <<"s","t","y","l","i","s","t","i","c","_","e","r","r","o","r","s">>
RecommendationsTag ==
    <<"r","e","c","o","m","m","e","n","d","a","t","i","o","n","s">>

-----------------------------------------------------------------------------
(* feedback_handler.py: FeedbackHandler._find_and_highlight_error          *)

\* str.split(): the maximal runs of non-whitespace of s, from position p on
RECURSIVE SplitFrom(_, _)
SplitFrom(s, p) ==
    LET start == SkipSpaces(s, p)
    IN  IF start > Len(s) THEN << >>
        ELSE LET blanks == {q \in start..Len(s) : IsSpace(s[q])}
                 stop == IF blanks = {} THEN Len(s) + 1 ELSE Min(blanks)
             IN  <<SubSeq(s, start, stop - 1)>> \o SplitFrom(s, stop)

Split(s) == SplitFrom(s, 1)

\* " ".join(tokens)
RECURSIVE JoinWithSpace(_)
JoinWithSpace(tokens) ==
    IF tokens = << >> THEN EmptyStr
    ELSE IF Len(tokens) = 1 THEN tokens[1]
    ELSE tokens[1] \o <<" ">> \o JoinWithSpace(Tail(tokens))

\* line 113: search_error = " ".join(error_text.split())
SearchError(e) == JoinWithSpace(Split(e))

\* QTextCursor(): the null cursor
NullCursor == [isNull |-> TRUE, anchor |-> 0, position |-> 0]

\* a cursor selecting the characters at (1-based) positions first..last
Selection(first, last) == [isNull |-> FALSE, anchor |-> first - 1, position |-> last]

\* the same search without FindCaseSensitively
DocFind_IgnoreCase(doc, needle) ==
    LET at == IF needle = EmptyStr THEN 0 ELSE FindIgnoreCase(doc, needle, 1)
    IN  IF at = 0 THEN NullCursor ELSE Selection(at, at + Len(needle) - 1)

\* lines 114-116: doc.find(search_error, cursor, FindCaseSensitively) from the
\* start of the document; an empty search string finds nothing
DocFind(doc, needle) ==
    LET at == IF needle = EmptyStr THEN 0 ELSE Find(doc, needle, 1)
    IN  IF at = 0 THEN NullCursor ELSE Selection(at, at + Len(needle) - 1)

\* \w of the re module, for the characters of the model
IsWord(c) ==
    \/ c \in {LowerCase[i] : i \in 1..26}
    \/ c \in {UpperCase[i] : i \in 1..26}
    \/ c \in {"0", "1", "2", "3", "4", "5", "6", "7", "8", "9", "_"}

\* \b before position p of s
WordBoundary(s, p) ==
    LET before == p > 1 /\ p - 1 <= Len(s) /\ IsWord(s[p - 1])
        after  == p >= 1 /\ p <= Len(s) /\ IsWord(s[p])
    IN  before # after

Boundary == [kind |-> "boundary", char |-> ""]
Spaces == [kind |-> "spaces", char |-> ""]

\* a token goes into the pattern as written (it is not escaped): "." is the
\* wildcard, any other character of the model stands for itself
TokenPattern(token) ==
    [i \in 1..Len(token) |->
        IF token[i] = "." THEN [kind |-> "dot", char |-> "."]
        ELSE [kind |-> "literal", char |-> token[i]]]

\* r"\b\s+\b".join(tokens)
RECURSIVE JoinTokenPatterns(_)
JoinTokenPatterns(tokens) ==
    IF tokens = << >> THEN << >>
    ELSE IF Len(tokens) = 1 THEN TokenPattern(tokens[1])
    ELSE TokenPattern(tokens[1]) \o <<Boundary, Spaces, Boundary>>
         \o JoinTokenPatterns(Tail(tokens))

\* line 121: relaxed_error
RelaxedError(search_error) ==
    <<Boundary>> \o JoinTokenPatterns(Split(search_error)) \o <<Boundary>>

\* line 122: re.compile raises re.error on a pattern it cannot parse; of the
\* characters of the model that is an opening parenthesis (never closed)
CompileRaises(search_error) == \E i \in 1..Len(search_error) : search_error[i] = "("

\* the backtracking match of pat[k..] at position p of s under re.IGNORECASE:
\* the position after the match, 0 when there is none
RECURSIVE MatchFrom(_, _, _, _)
MatchFrom(pat, k, s, p) ==
    IF k > Len(pat) THEN p
    ELSE IF pat[k].kind = "boundary"
         THEN IF WordBoundary(s, p) THEN MatchFrom(pat, k + 1, s, p) ELSE 0
    ELSE IF pat[k].kind = "spaces"
         THEN LET run == SkipSpaces(s, p)
                  ends == {q \in (p + 1)..run : MatchFrom(pat, k + 1, s, q) # 0}
              IN  IF ends = {} THEN 0 ELSE MatchFrom(pat, k + 1, s, Max(ends))
    ELSE IF p > Len(s) THEN 0
    ELSE IF pat[k].kind = "dot"
         THEN IF s[p] # "\n" THEN MatchFrom(pat, k + 1, s, p + 1) ELSE 0
    ELSE IF LowerChar(s[p]) = LowerChar(pat[k].char)
         THEN MatchFrom(pat, k + 1, s, p + 1)
         ELSE 0

\* lines 123-128: pattern.search(doc.toPlainText()), the leftmost match
PatternSearch(pat, doc) ==
    LET starts == {p \in 1..(Len(doc) + 1) : MatchFrom(pat, 1, doc, p) # 0}
    IN  IF starts = {} THEN NullCursor
        ELSE Selection(Min(starts), MatchFrom(pat, 1, doc, Min(starts)) - 1)

\* lines 110-134: the cursor the function ends with, the step that set it,
\* and whether the function raised
FindAndHighlightError(doc, e) ==
    LET search_error == SearchError(e)
        exact == DocFind(doc, search_error)
    IN  IF ~exact.isNull
        THEN [raised |-> FALSE, cursor |-> exact, by |-> "exact"]
        ELSE IF CompileRaises(search_error)
             THEN [raised |-> TRUE, cursor |-> NullCursor, by |-> "none"]
             ELSE LET relaxed == PatternSearch(RelaxedError(search_error), doc)
                  IN  [raised |-> FALSE, cursor |-> relaxed,
                       by |-> IF relaxed.isNull THEN "none" ELSE "relaxed"]

-----------------------------------------------------------------------------
(* feedback_handler.py: FeedbackHandler                                    *)

\* line 93: the background colours of the two error types
GrammarColor == "#ffcccc"
StyleColor == "#ccccff"
NoColor == "none"
BgColor(error_type) == IF error_type = "grammar" THEN GrammarColor ELSE StyleColor

\* the HTML of a document: its plain text and the background of every
\* character; toHtml and setHtml carry both
PlainHtml(t) == [text |-> t, bg |-> [i \in 1..Len(t) |-> NoColor]]

\* self._pre_highlight_html = None, or the saved HTML
NoHtml == [isNone |-> TRUE, html |-> PlainHtml(EmptyStr)]
SomeHtml(h) == [isNone |-> FALSE, html |-> h]

\* self.current_highlighted_error = None, or (error_text, error_type)
NoHighlight == [isNone |-> TRUE, error_text |-> EmptyStr, error_type |-> "none"]
HighlightOf(e, error_type) ==
    [isNone |-> FALSE, error_text |-> e, error_type |-> error_type]

\* lines 104-108 and 140-144: setHtml, then the text cursor is put at the
\* saved position (an empty selection) and the scroll bar at the saved value
WidgetWith(h, saved_cursor, saved_scroll) ==
    LET at == Min({saved_cursor, Len(h.text)})
    IN  [html |-> h, cursor |-> [anchor |-> at, position |-> at],
         scroll |-> saved_scroll]

\* the fields of the handler that highlighting reads and writes
Handler ==
    [writing_input |-> writing_input,
     current_highlighted_error |-> current_highlighted_error,
     pre_highlight_html |-> pre_highlight_html,
     pre_highlight_cursor |-> pre_highlight_cursor,
     pre_highlight_scroll |-> pre_highlight_scroll]

\* lines 136-147
restore_original_text(h) ==
    IF h.current_highlighted_error.isNone \/ h.pre_highlight_html.isNone
    THEN h
    ELSE [h EXCEPT
            !.writing_input = WidgetWith(h.pre_highlight_html.html,
                                         h.pre_highlight_cursor,
                                         h.pre_highlight_scroll),
            !.current_highlighted_error = NoHighlight,
            !.pre_highlight_html = NoHtml]

\* highlight_error without lines 85-86
RestoreBeforeHighlight_Skipped(h) == h

\* lines 85-86: a highlight that is still marked is taken back first
RestoreBeforeHighlight(h) ==
    IF ~h.current_highlighted_error.isNone THEN restore_original_text(h) ELSE h

\* lines 110-134 on the HTML: the search of FindAndHighlightError on the
\* document's plain text, the background set on the span found, and whether
\* the returned string equals original_text. A cursor that changes no
\* background gives doc.toHtml(), which may or may not equal the widget's
\* own toHtml(): equal then holds both answers.
FindAndHighlightHtml(original, e, bg_color) ==
    LET r == FindAndHighlightError(original.text, e)
        marked == [original EXCEPT
                     !.bg = [i \in 1..Len(original.text) |->
                               IF r.cursor.anchor < i /\ i <= r.cursor.position
                               THEN bg_color ELSE original.bg[i]]]
    IN  IF r.raised \/ r.cursor.isNull
        THEN [raised |-> r.raised, html |-> original, equal |-> {TRUE}, found |-> r]
        ELSE [raised |-> FALSE, html |-> marked,
              equal |-> IF marked = original THEN BOOLEAN ELSE {FALSE},
              found |-> r]

\* lines 81-108: the handler after the call, whether the call raised, and
\* what the search found; one result for each answer of line 100
highlight_error(h, e, error_type) ==
    LET nothing == [raised |-> FALSE, cursor |-> NullCursor, by |-> "none"]
        h1 == RestoreBeforeHighlight(h)
        h2 == [h1 EXCEPT
                 !.current_highlighted_error = HighlightOf(e, error_type),
                 !.pre_highlight_scroll = h1.writing_input.scroll,
                 !.pre_highlight_cursor = h1.writing_input.cursor.position,
                 !.pre_highlight_html = SomeHtml(h1.writing_input.html)]
        f == FindAndHighlightHtml(h2.pre_highlight_html.html, e,
                                  BgColor(error_type))
        unchanged == [h2 EXCEPT !.current_highlighted_error = NoHighlight]
        changed == [h2 EXCEPT
                      !.writing_input =
                          WidgetWith(f.html, h2.pre_highlight_cursor,
                                     h2.pre_highlight_scroll)]
    IN  IF e = EmptyStr
        THEN {[handler |-> h, raised |-> FALSE, found |-> nothing]}
        ELSE IF f.raised
        THEN {[handler |-> h2, raised |-> TRUE, found |-> f.found]}
        ELSE {[handler |-> IF equal THEN unchanged ELSE changed,
               raised |-> FALSE, found |-> f.found] : equal \in f.equal}

\* lines 60-64: the first stored error that is non-empty and stands in the
\* hovered line, 0 when there is none
FirstErrorInLine(errors, line) ==
    LET hits == {k \in 1..Len(errors) :
                    /\ errors[k][1] # EmptyStr
                    /\ Find(line, errors[k][1], 1) # 0}
    IN  IF hits = {} THEN 0 ELSE Min(hits)

-----------------------------------------------------------------------------
(* llms/lite.py and llms/openai_impl.py: the two adapters                  *)

\* an environment variable that is not set, and one that holds v
Unset == [set |-> FALSE, value |-> EmptyStr]
EnvValue(v) == [set |-> TRUE, value |-> v]

\* os.getenv(name, dflt)
getenv(env, name, dflt) == IF env[name].set THEN env[name].value ELSE dflt

\* None, and a value, where a Python name may hold either
None == [isNone |-> TRUE, value |-> EmptyStr]
Some(v) == [isNone |-> FALSE, value |-> v]

\* lite.py line 15 and openai_impl.py line 14
LiteDefaultBaseUrl == <<"https://openrouter.ai/api/v1">>
OpenAIDefaultBaseUrl == <<"https://api.openai.com/v1">>

Adapters == {"LiteLLM", "OpenAILLM"}
KeyVariable(a) == IF a = "LiteLLM" THEN "OPENROUTER_API_KEY" ELSE "OPENAI_API_KEY"
UrlVariable(a) == IF a = "LiteLLM" THEN "OPENROUTER_BASE_URL" ELSE "OPENAI_BASE_URL"

\* lite.py lines 17-22: what __init__ leaves in the litellm module, whose
\* api_key was prior before
LiteLLM_init(env, prior) ==
    [api_key |-> IF env["OPENROUTER_API_KEY"].set
                 THEN Some(env["OPENROUTER_API_KEY"].value) ELSE prior,
     base_url |-> getenv(env, "OPENROUTER_BASE_URL", LiteDefaultBaseUrl)]

\* openai_impl.py lines 16-18
OpenAILLM_init(env) ==
    [api_key |-> getenv(env, "OPENAI_API_KEY", EmptyStr),
     base_url |-> getenv(env, "OPENAI_BASE_URL", OpenAIDefaultBaseUrl)]

\* the state the adapters' methods read and write
World == [environ |-> environ, litellm |-> litellm, openai_llm |-> openai_llm]

\* set_api_key that leaves os.environ alone
set_api_key_NoEnviron(w, a, key) ==
    IF a = "LiteLLM" THEN [w EXCEPT !.litellm.api_key = Some(key)]
    ELSE [w EXCEPT !.openai_llm.api_key = key]

\* lite.py lines 24-26, openai_impl.py lines 20-22
set_api_key(w, a, key) ==
    IF a = "LiteLLM"
    THEN [w EXCEPT !.litellm.api_key = Some(key),
                   !.environ["OPENROUTER_API_KEY"] = EnvValue(key)]
    ELSE [w EXCEPT !.openai_llm.api_key = key,
                   !.environ["OPENAI_API_KEY"] = EnvValue(key)]

\* lite.py lines 28-29, openai_impl.py lines 24-25
get_api_key(w, a) ==
    IF a = "LiteLLM"
    THEN IF w.litellm.api_key.isNone \/ w.litellm.api_key.value = EmptyStr
         THEN EmptyStr ELSE w.litellm.api_key.value
    ELSE w.openai_llm.api_key

\* is_configured that asks whether a key was given at all
is_configured_NotNone(w, a) ==
    IF a = "LiteLLM" THEN ~w.litellm.api_key.isNone ELSE TRUE

\* is_configured that never refuses
is_configured_Always(w, a) == TRUE

\* lite.py lines 31-32, openai_impl.py lines 27-28: bool(api_key)
is_configured(w, a) ==
    IF a = "LiteLLM"
    THEN ~w.litellm.api_key.isNone /\ w.litellm.api_key.value # EmptyStr
    ELSE w.openai_llm.api_key # EmptyStr

\* lite.py lines 34-36, openai_impl.py lines 30-32
set_base_url(w, a, url) ==
    IF a = "LiteLLM"
    THEN [w EXCEPT !.litellm.base_url = url,
                   !.environ["OPENROUTER_BASE_URL"] = EnvValue(url)]
    ELSE [w EXCEPT !.openai_llm.base_url = url,
                   !.environ["OPENAI_BASE_URL"] = EnvValue(url)]

\* lite.py lines 38-39, openai_impl.py lines 34-35
get_base_url(w, a) ==
    IF a = "LiteLLM" THEN w.litellm.base_url ELSE w.openai_llm.base_url

-----------------------------------------------------------------------------
(* llms/lite.py and llms/openai_impl.py: completion                        *)

\* lite.py line 51: model.split("/")[-1]
AfterLastSlash(m) ==
    LET slashes == {i \in 1..Len(m) : m[i] = "/"}
    IN  IF slashes = {} THEN m ELSE SubSeq(m, Max(slashes) + 1, Len(m))

\* lite.py line 51: .split(":")[0]
BeforeFirstColon(m) ==
    LET colons == {i \in 1..Len(m) : m[i] = ":"}
    IN  IF colons = {} THEN m ELSE SubSeq(m, 1, Min(colons) - 1)

\* the name looked up when the variant is kept
ModelName_KeepVariant(m) == AfterLastSlash(m)

\* lite.py line 51: model_name
ModelName(m) == BeforeFirstColon(AfterLastSlash(m))

\* a price entry that is absent, and one that is there
NoEntry == [found |-> FALSE, input_cost_per_token |-> 0, output_cost_per_token |-> 0]
Entry(e) ==
    [found |-> TRUE, input_cost_per_token |-> e.input_cost_per_token,
     output_cost_per_token |-> e.output_cost_per_token]

\* lite.py line 52: MODEL_PRICE_PER_TOKEN.get(model_name); the table is a set
\* of entries with distinct names
PriceGet(table, name) ==
    LET hits == {e \in table : e.name = name}
    IN  IF hits = {} THEN NoEntry ELSE Entry(CHOOSE e \in hits : TRUE)

\* litellm.completion_cost(response, custom_cost_per_token=cost_info): the
\* tokens of the response at the given prices
completion_cost(resp, cost_info) ==
    resp.prompt_tokens * cost_info.input_cost_per_token
    + resp.completion_tokens * cost_info.output_cost_per_token

\* a cost of None, and a cost that is an amount
NoCost == [isNone |-> TRUE, amount |-> 0]
Amount(x) == [isNone |-> FALSE, amount |-> x]

\* lite.py lines 51-53 and openai_impl.py line 52: the cost completion returns
CompletionCost(a, m, table, resp) ==
    LET cost_info == PriceGet(table, ModelName(m))
    IN  IF a = "LiteLLM" /\ cost_info.found
        THEN Amount(completion_cost(resp, cost_info)) ELSE NoCost

\* the exception of the backend replaced by another
PropagatedException_Wrapped(e) == "RuntimeError"

\* lite.py lines 42-47 and openai_impl.py lines 46-50: the awaited request
\* stands in no try block, so its exception is the one the caller gets
PropagatedException(e) == e

-----------------------------------------------------------------------------
(* AppController (app_controller.py), LanguageTutorState (state.py) and    *)
(* QADialog (gui_screens/qa_dialog.py): their fields before any call       *)

\* a status message: which message it is, the cost and the exception in it
Status(kind, c, e) == [kind |-> kind, cost |-> c, error |-> e]

\* the text of the cost label of QADialog
CostUnknown == [kind |-> "unknown", amount |-> 0]
CostShown(x) == [kind |-> "amount", amount |-> x]

\* no core function called yet
NoCore ==
    [fn |-> "none", calls |-> 0, outcome |-> "none", exception |-> "none",
     answer |-> EmptyStr, cost |-> NoCost]

\* state.py lines 14-25
LanguageTutorState ==
    [selected_language |-> "", selected_exercise |-> "", selected_level |-> "",
     writing_input_html |-> EmptyStr,
     generated_exercise |-> EmptyStr, generated_hints |-> EmptyStr,
     writing_mistakes |-> EmptyStr, style_errors |-> EmptyStr,
     recommendations |-> EmptyStr, writing_input |-> EmptyStr,
     grammar_errors_raw |-> << >>, style_errors_raw |-> << >>]

\* app_controller.py lines 112-116
AppController_init ==
    [status_message |-> Status("", NoCost, "none"),
     generate_button_text |-> "Generate Exercise",
     generate_button_enabled |-> TRUE,
     check_button_text |-> "Check Writing",
     check_button_enabled |-> TRUE]

\* qa_dialog.py lines 24-28 and 94; message_box is the box last shown
QADialog_init ==
    [question |-> EmptyStr, last_response |-> EmptyStr, last_cost |-> 0,
     answer_display |-> EmptyStr, cost_display |-> CostUnknown,
     send_enabled |-> TRUE, send_text |-> "Send", message_box |-> "none"]

-----------------------------------------------------------------------------
(* Groups of variables at rest (no call made on them yet)                  *)

XmlAtRest == text = EmptyStr /\ tag_name = EmptyStr /\ default = EmptyStr
             /\ xml_result = EmptyStr
GenAtRest == exercise_text = EmptyStr /\ hints = EmptyStr
NoSection == [kind |-> "free", items |-> << >>]
AnnAtRest == content = EmptyStr /\ annotations = << >>
             /\ backend_mistakes = NoSection /\ backend_style = NoSection
ChkAtRest == mistakes_list = << >> /\ style_errors_list = << >>
             /\ recommendations = EmptyStr
LocAtRest == doc_text = EmptyStr /\ error_text = EmptyStr /\ cursor = NullCursor
             /\ located_by = "none"
\* lines 13-19: the handler as __init__ leaves it, on an empty writing input
HdlAtRest ==
    /\ writing_input = WidgetWith(PlainHtml(EmptyStr), 0, 0)
    /\ grammar_errors = << >> /\ style_errors = << >>
    /\ original_text = EmptyStr
    /\ current_highlighted_error = NoHighlight
    /\ pre_highlight_html = NoHtml
    /\ pre_highlight_cursor = 0 /\ pre_highlight_scroll = 0
    /\ html_before = PlainHtml(EmptyStr)
\* no adapter constructed: an empty environment, litellm as imported
NoEnviron ==
    [name \in {"OPENROUTER_API_KEY", "OPENROUTER_BASE_URL",
               "OPENAI_API_KEY", "OPENAI_BASE_URL"} |-> Unset]
NeverSet == [key |-> None, url |-> None]
AdpAtRest ==
    /\ environ = NoEnviron
    /\ litellm = [api_key |-> None, base_url |-> EmptyStr]
    /\ openai_llm = [api_key |-> EmptyStr, base_url |-> EmptyStr]
    /\ adapter = "none"
    /\ environ_at_construction = NoEnviron
    /\ last_set = [a \in Adapters |-> NeverSet]
NoResponse == [status |-> "none", content |-> EmptyStr, error |-> "none",
               prompt_tokens |-> 0, completion_tokens |-> 0]
CmpAtRest ==
    /\ model = EmptyStr
    /\ price_table = {}
    /\ requests = 0
    /\ response = NoResponse
    /\ exception = "none"
    /\ cost = NoCost
LlmAtRest == llm_result = [status |-> "none", content |-> EmptyStr]
             /\ outcome = "none"
CtlAtRest ==
    /\ core = NoCore
    /\ state = LanguageTutorState
    /\ controller = AppController_init
    /\ qa_dialog = QADialog_init
\* openai_impl.py lines 43-45: the module attributes before any call
NoOpenAIModule == [api_key |-> None, api_base |-> OpenAIDefaultBaseUrl]
\* no state file
NoFile == [exists |-> FALSE, format |-> "none", data |-> LanguageTutorState]
NotLoaded == [loaded |-> FALSE, state |-> LanguageTutorState]
\* app_controller.py lines 98-99: the tables of no language
NoTables == [exercise_types |-> "", exercise_definitions |-> ""]
CncAtRest == calls = << >> /\ openai_module = NoOpenAIModule
FileAtRest == disk = NoFile /\ loaded_state = NotLoaded /\ markdown = EmptyStr
SlotAtRest == tasks = << >> /\ exercise_tables = NoTables
ExtAtRest == CncAtRest /\ FileAtRest /\ SlotAtRest

-----------------------------------------------------------------------------
(* Specification SpecXml: extract_content_from_xml applied to bounded      *)
(* inputs                                                                  *)

\* the longest text is a concatenation of this many pieces
MaxXmlPieces == 4

XmlPieces ==
    { OpenTag(ExerciseTag), CloseTag(ExerciseTag),
      <<"<","E","X","E","R","C","I","S","E",">">>,
      OpenTag(HintsTag), CloseTag(HintsTag),
      <<"a">>, <<" ">>, <<"N","o","n","e",".">> }

XmlDefaults == { EmptyStr, <<"d">> }

\* texts that hold the exercise section twice, the tags in either letter
\* case
UpperOpenTag == <<"<","E","X","E","R","C","I","S","E",">">>
UpperCloseTag == <<"<","/","E","X","E","R","C","I","S","E",">">>
TwoSections ==
    { o1 \o c1 \o e1 \o sep \o o2 \o c2 \o e2 :
        o1 \in {OpenTag(ExerciseTag), UpperOpenTag},
        c1 \in {<<"a">>, <<" ", "a", "\n">>, <<"N","o","n","e",".">>},
        e1 \in {CloseTag(ExerciseTag), UpperCloseTag},
        sep \in {EmptyStr, <<"\n">>},
        o2 \in {OpenTag(ExerciseTag), UpperOpenTag},
        c2 \in {<<"b">>},
        e2 \in {CloseTag(ExerciseTag), UpperCloseTag} }

InitXml ==
    /\ pc = "idle"
    /\ fn = "extract_content_from_xml"
    /\ text \in Texts(XmlPieces, MaxXmlPieces) \cup TwoSections
    /\ tag_name \in {ExerciseTag, HintsTag}
    /\ default \in XmlDefaults
    /\ xml_result = EmptyStr
    /\ GenAtRest /\ AnnAtRest /\ ChkAtRest /\ LocAtRest /\ LlmAtRest /\ HdlAtRest
    /\ AdpAtRest /\ CmpAtRest /\ CtlAtRest /\ ExtAtRest

ExtractContentFromXml ==
    /\ pc = "idle"
    /\ pc' = "done"
    /\ xml_result' = extract_content_from_xml(text, tag_name, default)
    /\ UNCHANGED <<fn, text, tag_name, default, llm_result, outcome>>
    /\ UNCHANGED <<genVars, annVars, chkVars, locVars, hdlVars, adpVars, cmpVars, ctlVars, extVars>>

NextXml == ExtractContentFromXml

SpecXml == InitXml /\ [][NextXml]_vars


\* text holds an opening <name> and, after it, a closing </name>, in any case
HasPair(t, name) ==
    \E i \in 1..Len(t) :
        /\ StartsAtIgnoreCase(t, OpenTag(name), i)
        /\ \E j \in (i + Len(OpenTag(name)))..Len(t) :
               StartsAtIgnoreCase(t, CloseTag(name), j)

\* what stands between the first opening tag and the first closing tag after it
PairContent(t, name) ==
    LET i == Min({k \in 1..Len(t) : StartsAtIgnoreCase(t, OpenTag(name), k)})
        from == i + Len(OpenTag(name))
        j == Min({k \in from..Len(t) : StartsAtIgnoreCase(t, CloseTag(name), k)})
    IN  SubSeq(t, from, j - 1)

IsBlank(s) == \A i \in 1..Len(s) : IsSpace(s[i])

\* r is s with its leading and trailing whitespace removed (s not blank)
IsTrimOf(r, s) ==
    \E a \in 1..Len(s) :
        /\ ~IsSpace(s[a])
        /\ \A k \in 1..(a - 1) : IsSpace(s[k])
        /\ \E b \in a..Len(s) :
            /\ ~IsSpace(s[b])
            /\ \A k \in (b + 1)..Len(s) : IsSpace(s[k])
            /\ r = SubSeq(s, a, b)

\* s is "none." in some letter case, possibly surrounded by whitespace
IsNoneSentinel(s) ==
    \E a \in 1..(Len(s) - 4) :
        /\ s[a] \in {"n", "N"} /\ s[a + 1] \in {"o", "O"}
        /\ s[a + 2] \in {"n", "N"} /\ s[a + 3] \in {"e", "E"}
        /\ s[a + 4] = "."
        /\ \A k \in 1..Len(s) : k \in a..(a + 4) \/ IsSpace(s[k])

(* C1: extract_content_from_xml(text, tag, default) returns default when   *)
(* text holds no <tag>...</tag> pair, when the content between the pair is *)
(* empty after trimming, or when the trimmed content is "none." in any     *)
(* letter case; otherwise it returns the content with its leading and      *)
(* trailing whitespace removed.                                            *)
C1_ExtractContent ==
    pc = "done" =>
        IF ~HasPair(text, tag_name) THEN xml_result = default
        ELSE LET raw == PairContent(text, tag_name)
             IN  IF IsBlank(raw) \/ IsNoneSentinel(raw)
                 THEN xml_result = default
                 ELSE IsTrimOf(xml_result, raw)

\* a pair whose content is returned, and returned shorter than it stands
C1_Witness ==
    /\ pc = "done"
    /\ HasPair(text, tag_name)
    /\ xml_result # default
    /\ Len(xml_result) < Len(PairContent(text, tag_name))


-----------------------------------------------------------------------------
(* exercise.py: generate_exercise and generate_custom_hints                *)

\* lines 86-87: the two sections generate_exercise parses out of the response
ParseExercise(resp) == extract_content_from_xml(resp, ExerciseTag, EmptyStr)

\* the hints section with the whole response as its default
ParseHints_DefaultWholeResponse(resp) ==
    extract_content_from_xml(resp, HintsTag, resp)

\* lines 87 and 126: the hints section, "" when the response has no <hints> tag
ParseHints(resp) == extract_content_from_xml(resp, HintsTag, EmptyStr)

-----------------------------------------------------------------------------
(* Specification SpecGen: generate_exercise and generate_custom_hints      *)
(* against a backend that answers with a bounded text or raises            *)

\* the longest backend response is a concatenation of this many pieces
MaxGenPieces == 4

GenPieces ==
    { OpenTag(ExerciseTag), CloseTag(ExerciseTag),
      OpenTag(HintsTag), CloseTag(HintsTag),
      <<"<","H","I","N","T","S",">">>,
      <<"a">>, <<" ">>, <<"N","o","n","e",".">> }

InitGen ==
    /\ pc = "idle"
    /\ fn = "none"
    /\ XmlAtRest /\ GenAtRest /\ AnnAtRest /\ ChkAtRest /\ LocAtRest /\ LlmAtRest /\ HdlAtRest
    /\ AdpAtRest /\ CmpAtRest /\ CtlAtRest /\ ExtAtRest

\* lines 73-79: the prompt is built and llm.completion is awaited
CallGenerateExercise ==
    /\ pc = "idle"
    /\ pc' = "awaiting"
    /\ fn' = "generate_exercise"
    /\ UNCHANGED <<xmlVars, llm_result, outcome, genVars, annVars, chkVars, locVars, hdlVars, adpVars, cmpVars, ctlVars, extVars>>

\* lines 117-122
CallGenerateCustomHints ==
    /\ pc = "idle"
    /\ pc' = "awaiting"
    /\ fn' = "generate_custom_hints"
    /\ UNCHANGED <<xmlVars, llm_result, outcome, genVars, annVars, chkVars, locVars, hdlVars, adpVars, cmpVars, ctlVars, extVars>>

\* the awaited completion answers with some text
GenCompletionReturns ==
    /\ pc = "awaiting"
    /\ \E resp \in Texts(GenPieces, MaxGenPieces) :
           llm_result' = [status |-> "ok", content |-> resp]
    /\ pc' = "responded"
    /\ UNCHANGED <<fn, xmlVars, outcome, genVars, annVars, chkVars, locVars, hdlVars, adpVars, cmpVars, ctlVars, extVars>>

\* the awaited completion raises: the exception leaves the function
GenCompletionRaises ==
    /\ pc = "awaiting"
    /\ llm_result' = [status |-> "error", content |-> EmptyStr]
    /\ outcome' = "raised"
    /\ pc' = "done"
    /\ UNCHANGED <<fn, xmlVars, genVars, annVars, chkVars, locVars, hdlVars, adpVars, cmpVars, ctlVars, extVars>>

\* lines 81-91
GenerateExerciseReturn ==
    /\ pc = "responded"
    /\ fn = "generate_exercise"
    /\ exercise_text' = ParseExercise(llm_result.content)
    /\ hints' = ParseHints(llm_result.content)
    /\ outcome' = "returned"
    /\ pc' = "done"
    /\ UNCHANGED <<fn, xmlVars, llm_result, annVars, chkVars, locVars, hdlVars, adpVars, cmpVars, ctlVars, extVars>>

\* lines 124-129
GenerateCustomHintsReturn ==
    /\ pc = "responded"
    /\ fn = "generate_custom_hints"
    /\ hints' = ParseHints(llm_result.content)
    /\ outcome' = "returned"
    /\ pc' = "done"
    /\ UNCHANGED <<fn, xmlVars, llm_result, exercise_text, annVars, chkVars, locVars, hdlVars, adpVars, cmpVars, ctlVars, extVars>>

NextGen ==
    \/ CallGenerateExercise
    \/ CallGenerateCustomHints
    \/ GenCompletionReturns
    \/ GenCompletionRaises
    \/ GenerateExerciseReturn
    \/ GenerateCustomHintsReturn

SpecGen == InitGen /\ [][NextGen]_vars

\* the response up to its first <hints> opening tag, or all of it
BeforeHints(resp) ==
    LET h == FindIgnoreCase(resp, OpenTag(HintsTag), 1)
    IN  IF h = 0 THEN resp ELSE SubSeq(resp, 1, h - 1)

(* C2: generate_exercise never returns an empty exercise text for a        *)
(* non-empty backend response: when the response has no                    *)
(* <exercise>...</exercise> pair, the exercise text is the part of the     *)
(* response before <hints> (or the whole response).                        *)
C2_ExerciseNeverEmpty ==
    (/\ pc = "done"
     /\ fn = "generate_exercise"
     /\ llm_result.status = "ok"
     /\ ~IsBlank(llm_result.content))
    => /\ outcome = "returned"
       /\ exercise_text # EmptyStr
       /\ ~HasPair(llm_result.content, ExerciseTag)
              => exercise_text = Strip(BeforeHints(llm_result.content))

\* the response holds no <hints> opening tag, in any letter case
NoHintsTag(resp) == FindIgnoreCase(resp, OpenTag(HintsTag), 1) = 0

(* C8: for every backend response that has no <hints> tag,                 *)
(* generate_exercise and generate_custom_hints return hints equal to the   *)
(* empty string and do not raise.                                          *)
C8_NoHintsTag ==
    (/\ pc = "done"
     /\ fn \in {"generate_exercise", "generate_custom_hints"}
     /\ llm_result.status = "ok"
     /\ NoHintsTag(llm_result.content))
    => outcome = "returned" /\ hints = EmptyStr

\* generate_custom_hints has answered a response with text but no <hints> tag
C8_Witness ==
    /\ pc = "done"
    /\ fn = "generate_custom_hints"
    /\ llm_result.status = "ok"
    /\ NoHintsTag(llm_result.content)
    /\ ~IsBlank(llm_result.content)
    /\ outcome = "returned"


-----------------------------------------------------------------------------
(* exercise.py: check_writing                                              *)

\* lines 232-236: the three sections check_writing parses out of the response
MistakesContent(resp) == extract_content_from_xml(resp, MistakesTag, EmptyStr)
\* the style section read from the mistakes tag
StyleErrorsContent_FromMistakes(resp) ==
    extract_content_from_xml(resp, MistakesTag, EmptyStr)
StyleErrorsContent(resp) == extract_content_from_xml(resp, StyleTag, EmptyStr)
RecommendationsContent(resp) ==
    extract_content_from_xml(resp, RecommendationsTag, EmptyStr)

\* the mistakes parsed out of the whole response
MistakesList_WholeResponse(resp) == extract_annotated_errors(resp)
\* lines 239-240
MistakesList(resp) == extract_annotated_errors(MistakesContent(resp))
StyleErrorsList(resp) == extract_annotated_errors(StyleErrorsContent(resp))

-----------------------------------------------------------------------------
(* Specification SpecFeedback: extract_annotated_errors applied to bounded *)
(* section contents (free concatenations of markup, and lists of bullets   *)
(* laid out as the checking prompt asks), and check_writing against a      *)
(* backend that answers in the prompt's format or raises                   *)

\* the longest free content is a concatenation of this many pieces
MaxAnnPieces == 4
\* the longest list of bullets in the mistakes section
MaxBullets == 2
\* the longest list of bullets in the stylistic_errors section
MaxStyleBullets == 1

AnnPieces ==
    { TextOpen \o <<"a">> \o TextClose, TextOpen \o TextClose,
      <<"x">>, <<" ">>, <<"-">>, <<"\n", "-", " ">>, <<"N","O","N","E",".">> }

\* "none." in every letter case
NoneSpellings ==
    { <<c1, c2, c3, c4, ".">> :
        c1 \in {"n", "N"}, c2 \in {"o", "O"}, c3 \in {"n", "N"}, c4 \in {"e", "E"} }

\* a bullet is a quoted fragment (possibly empty or blank) and an explanation
Fragments == { EmptyStr, <<"a">>, <<" ">> }
Explanations == { <<"x">>, <<"x", "\n", "y">> }
Bullets == [fragment : Fragments, explanation : Explanations]
BulletLists(n) == UNION {[1..k -> Bullets] : k \in 0..n}
Indents == { EmptyStr, <<" ">> }

\* "- <text>fragment</text> explanation", as the prompt lays a bullet out
RenderBullet(b) ==
    <<"-", " ">> \o TextOpen \o b.fragment \o TextClose \o <<" ">> \o b.explanation

\* the bullets one per line, each line indented by indent
RECURSIVE RenderBullets(_, _)
RenderBullets(bs, indent) ==
    IF bs = << >> THEN EmptyStr
    ELSE indent \o RenderBullet(Head(bs))
         \o (IF Len(bs) > 1 THEN <<"\n">> ELSE EmptyStr)
         \o RenderBullets(Tail(bs), indent)

\* what the backend may write as one section: a list of bullets, or "None."
\* in some letter case; each with the text of the section's body, its lines
\* indented by indent
SectionChoices(n, indent) ==
    { [kind |-> "bullets", items |-> bs,
       body |-> <<"\n">> \o RenderBullets(bs, indent) \o <<"\n">>] :
         bs \in BulletLists(n) \ {<< >>} }
    \cup
    { [kind |-> "none", items |-> << >>, body |-> spelling] :
         spelling \in {<<"N","o","n","e",".">>, <<"N","O","N","E",".">>, NoneDot} }

\* the response of the checking prompt's format, lines 200-216
RenderFeedback(m, st, rec) ==
    OpenTag(MistakesTag) \o m.body \o CloseTag(MistakesTag) \o <<"\n">>
    \o OpenTag(StyleTag) \o st.body \o CloseTag(StyleTag) \o <<"\n">>
    \o OpenTag(RecommendationsTag) \o rec \o CloseTag(RecommendationsTag)

InitFeedback ==
    /\ pc = "idle"
    /\ \/ /\ fn = "extract_annotated_errors"
          /\ \/ /\ content \in Texts(AnnPieces, MaxAnnPieces) \cup NoneSpellings
                /\ backend_mistakes = NoSection
             \/ \E bs \in BulletLists(MaxBullets), indent \in Indents :
                   /\ content = RenderBullets(bs, indent)
                   /\ backend_mistakes = [kind |-> "bullets", items |-> bs]
       \/ /\ fn = "none"
          /\ content = EmptyStr
          /\ backend_mistakes = NoSection
    /\ backend_style = NoSection
    /\ annotations = << >>
    /\ XmlAtRest /\ GenAtRest /\ ChkAtRest /\ LocAtRest /\ LlmAtRest /\ HdlAtRest
    /\ AdpAtRest /\ CmpAtRest /\ CtlAtRest /\ ExtAtRest

\* lines 141-157, called on a section content
ExtractAnnotatedErrors ==
    /\ pc = "idle"
    /\ fn = "extract_annotated_errors"
    /\ pc' = "done"
    /\ annotations' = extract_annotated_errors(content)
    /\ UNCHANGED <<fn, xmlVars, llm_result, outcome, genVars, chkVars, locVars, hdlVars, adpVars, cmpVars, ctlVars, extVars>>
    /\ UNCHANGED <<backend_mistakes, backend_style, content>>

\* lines 218-225: the prompt is built and llm.completion is awaited
CallCheckWriting ==
    /\ pc = "idle"
    /\ fn = "none"
    /\ pc' = "awaiting"
    /\ fn' = "check_writing"
    /\ UNCHANGED <<xmlVars, llm_result, outcome, genVars, annVars, chkVars, locVars, hdlVars, adpVars, cmpVars, ctlVars, extVars>>

\* the awaited completion answers in the format the prompt asks for
CheckCompletionReturns ==
    /\ pc = "awaiting"
    /\ fn = "check_writing"
    /\ \E indent \in Indents, rec \in {<<"N","o","n","e",".">>, <<"r">>} :
        \E m \in SectionChoices(MaxBullets, indent),
           st \in SectionChoices(MaxStyleBullets, indent) :
           /\ llm_result' = [status |-> "ok", content |-> RenderFeedback(m, st, rec)]
           /\ backend_mistakes' = [kind |-> m.kind, items |-> m.items]
           /\ backend_style' = [kind |-> st.kind, items |-> st.items]
    /\ pc' = "responded"
    /\ UNCHANGED <<fn, xmlVars, outcome, genVars, content, annotations, chkVars, locVars, hdlVars, adpVars, cmpVars, ctlVars, extVars>>

\* the awaited completion raises: the exception leaves check_writing
CheckCompletionRaises ==
    /\ pc = "awaiting"
    /\ fn = "check_writing"
    /\ llm_result' = [status |-> "error", content |-> EmptyStr]
    /\ outcome' = "raised"
    /\ pc' = "done"
    /\ UNCHANGED <<fn, xmlVars, genVars, annVars, chkVars, locVars, hdlVars, adpVars, cmpVars, ctlVars, extVars>>

\* lines 226-247
CheckWritingReturn ==
    /\ pc = "responded"
    /\ fn = "check_writing"
    /\ mistakes_list' = MistakesList(llm_result.content)
    /\ style_errors_list' = StyleErrorsList(llm_result.content)
    /\ recommendations' = RecommendationsContent(llm_result.content)
    /\ outcome' = "returned"
    /\ pc' = "done"
    /\ UNCHANGED <<fn, xmlVars, llm_result, genVars, annVars, locVars, hdlVars, adpVars, cmpVars, ctlVars, extVars>>

NextFeedback ==
    \/ ExtractAnnotatedErrors
    \/ CallCheckWriting
    \/ CheckCompletionReturns
    \/ CheckCompletionRaises
    \/ CheckWritingReturn

SpecFeedback == InitFeedback /\ [][NextFeedback]_vars

\* the number of <text>...</text> occurrences in c from position pos on
RECURSIVE CountTextPairs(_, _)
CountTextPairs(c, pos) ==
    LET open  == Find(c, TextOpen, pos)
        close == IF open = 0 THEN 0 ELSE Find(c, TextClose, open + Len(TextOpen))
    IN  IF open = 0 \/ close = 0 THEN 0
        ELSE 1 + CountTextPairs(c, close + Len(TextClose))

ExtractorDone == pc = "done" /\ fn = "extract_annotated_errors"

(* C3: for every section content, extract_annotated_errors returns one     *)
(* entry per <text>...</text> occurrence, in the order of the occurrences, *)
(* and no entry's explanation contains a <text> opening tag (each          *)
(* explanation ends before the next <text>).                               *)
C3_OneEntryPerText ==
    (ExtractorDone /\ content # EmptyStr /\ Lower(content) # NoneDot)
    => /\ Len(annotations) = CountTextPairs(content, 1)
       /\ \A i \in 1..Len(annotations) : Find(annotations[i][2], TextOpen, 1) = 0

\* the entries a list of bullets stands for: the trimmed fragment and the
\* explanation of each bullet, in order
EntriesOf(section) ==
    [i \in 1..Len(section.items) |->
        <<Strip(section.items[i].fragment), section.items[i].explanation>>]

CheckWritingDone ==
    pc = "done" /\ fn = "check_writing" /\ llm_result.status = "ok"

C5_NoneIsEmptyList ==
    /\ (ExtractorDone /\ (content = EmptyStr \/ content \in NoneSpellings))
           => annotations = << >>
    /\ (CheckWritingDone /\ backend_mistakes.kind = "none") => mistakes_list = << >>
    /\ (CheckWritingDone /\ backend_style.kind = "none") => style_errors_list = << >>

\* a style section of "None." beside a mistakes section that has bullets
C5_Witness ==
    /\ CheckWritingDone
    /\ backend_style.kind = "none"
    /\ backend_mistakes.kind = "bullets"
    /\ style_errors_list = << >>
    /\ mistakes_list # << >>

C7_ExplanationNonEmpty ==
    ExtractorDone => \A i \in 1..Len(annotations) : annotations[i][2] # EmptyStr

-----------------------------------------------------------------------------
(* Specification SpecLocator: _find_and_highlight_error applied to bounded *)
(* documents and fragments                                                 *)

\* the longest document, in characters
MaxDocLen == 4

DocChars == { <<"a">>, <<" ">>, <<"\n">>, <<",">> }

\* a fragment is up to two tokens with whitespace between or around them
FragmentTokens ==
    { EmptyStr, <<"a">>, <<"A">>, <<"a", ",">>, <<"a", ".">>, <<".">>, <<"(">> }
FragmentGaps == { EmptyStr, <<" ">>, <<" ", "\n">> }
LocatorFragments ==
    { t1 \o gap \o t2 : t1 \in FragmentTokens, gap \in FragmentGaps,
                        t2 \in FragmentTokens }

\* the example of the specification
IGoesToSchool ==
    <<"I"," ","g","o","e","s"," ","t","o"," ","s","c","h","o","o","l",".">>
IGoes == <<"I"," ","g","o","e","s">>

InitLocator ==
    /\ pc = "idle"
    /\ fn = "_find_and_highlight_error"
    /\ \/ /\ doc_text \in Texts(DocChars, MaxDocLen)
          /\ error_text \in LocatorFragments
       \/ /\ doc_text = IGoesToSchool
          /\ error_text \in {IGoes, <<"i"," "," ","G","O","E","S">>}
    /\ cursor = NullCursor
    /\ located_by = "none"
    /\ XmlAtRest /\ GenAtRest /\ AnnAtRest /\ ChkAtRest /\ LlmAtRest /\ HdlAtRest
    /\ AdpAtRest /\ CmpAtRest /\ CtlAtRest /\ ExtAtRest

FindAndHighlight ==
    /\ pc = "idle"
    /\ pc' = "done"
    /\ LET r == FindAndHighlightError(doc_text, error_text)
       IN  /\ cursor' = r.cursor
           /\ located_by' = r.by
           /\ outcome' = IF r.raised THEN "raised" ELSE "returned"
    /\ UNCHANGED <<fn, xmlVars, llm_result, genVars, annVars, chkVars, hdlVars, adpVars, cmpVars, ctlVars, extVars>>
    /\ UNCHANGED <<doc_text, error_text>>

NextLocator == FindAndHighlight

SpecLocator == InitLocator /\ [][NextLocator]_vars

LocatorDone == pc = "done" /\ fn = "_find_and_highlight_error"

\* the positions of s that survive when every run of whitespace inside s
\* becomes one space and the whitespace around s goes
KeptPositions(s) ==
    {k \in 1..Len(s) :
        \/ ~IsSpace(s[k])
        \/ /\ k > 1
           /\ ~IsSpace(s[k - 1])
           /\ \E j \in (k + 1)..Len(s) : ~IsSpace(s[j])}

\* s with its whitespace runs collapsed to single spaces
Collapsed(s) ==
    LET kept == KeptPositions(s)
        Nth(i) == CHOOSE k \in kept : Cardinality({j \in kept : j <= k}) = i
    IN  [i \in 1..Cardinality(kept) |->
            IF IsSpace(s[Nth(i)]) THEN " " ELSE s[Nth(i)]]

\* where needle stands in doc, character for character
Occurrences(doc, needle) ==
    {i \in 1..(Len(doc) - Len(needle) + 1) :
        SubSeq(doc, i, i + Len(needle) - 1) = needle}

(* C9: the locator's first step searches the learner's text, as it stands  *)
(* and case-sensitively, for the fragment with its whitespace runs         *)
(* collapsed to single spaces; the step finds a match exactly when that    *)
(* string occurs in the text, and then selects its first occurrence. For   *)
(* "I goes to school." and "I goes" the span is offsets 0 to 6.            *)
C9_ExactStep ==
    LocatorDone =>
        LET needle == Collapsed(error_text)
            occ == IF needle = EmptyStr THEN {} ELSE Occurrences(doc_text, needle)
        IN  /\ (located_by = "exact") <=> (occ # {})
            /\ occ # {} =>
                  /\ outcome = "returned"
                  /\ cursor = [isNull |-> FALSE, anchor |-> Min(occ) - 1,
                               position |-> Min(occ) - 1 + Len(needle)]
            /\ (doc_text = IGoesToSchool /\ error_text = IGoes) =>
                  cursor = [isNull |-> FALSE, anchor |-> 0, position |-> 6]

\* the example, located by the exact step
C9_Witness ==
    /\ LocatorDone
    /\ doc_text = IGoesToSchool /\ error_text = IGoes
    /\ located_by = "exact"
    /\ cursor.anchor = 0 /\ cursor.position = 6

\* the fragment's tokens, each taken literally, one or more whitespace
\* characters between them, a word boundary before the first and after the last
RECURSIVE LiteralTokens(_)
LiteralTokens(tokens) ==
    LET Literal(token) ==
            [i \in 1..Len(token) |-> [kind |-> "literal", char |-> token[i]]]
    IN  IF tokens = << >> THEN << >>
        ELSE IF Len(tokens) = 1 THEN Literal(tokens[1])
        ELSE Literal(tokens[1]) \o <<Spaces>> \o LiteralTokens(Tail(tokens))

EscapedRelaxedPattern(e) == <<Boundary>> \o LiteralTokens(Split(e)) \o <<Boundary>>

(* C10: when the exact search fails, the relaxed step matches exactly when *)
(* the learner's text contains the fragment's whitespace-separated tokens, *)
(* each taken literally, in order, separated by one or more whitespace     *)
(* characters, compared case-insensitively, with a word boundary required  *)
(* only at the very start and very end; it returns the span of the first   *)
(* such match.                                                             *)
C10_RelaxedStep ==
    (LocatorDone /\ located_by # "exact" /\ Split(error_text) # << >>)
    => /\ outcome = "returned"
       /\ cursor = PatternSearch(EscapedRelaxedPattern(error_text), doc_text)

-----------------------------------------------------------------------------
(* Specification SpecHandler: a FeedbackHandler on a writing input, its    *)
(* errors updated, its lines hovered and left                              *)

\* the most pieces in the text of the writing input
MaxInputPieces == 2

InputPieces == { <<"a">>, <<"a", " ">>, <<"(">> }
InputTexts == Texts(InputPieces, MaxInputPieces)

\* the writing input holds plain text, or text whose first character already
\* has a background
InputHtmls ==
    { PlainHtml(t) : t \in InputTexts }
    \cup { [PlainHtml(t) EXCEPT !.bg[1] = StyleColor] : t \in InputTexts \ {EmptyStr} }

\* the fragments highlight_error is called with
HandlerFragments ==
    { EmptyStr, <<" ">>, <<"a">>, <<"A">>, <<"(">>, <<"b">> }

\* the (fragment, explanation) lists update_errors is given
ErrorOn(fragment) == <<fragment, <<"x">>>>
GrammarErrorLists ==
    { << >>, <<ErrorOn(<<"a">>)>>, <<ErrorOn(<<"(">>)>>,
      <<ErrorOn(<<"a">>), ErrorOn(<<"(">>)>> }
StyleErrorLists == { << >>, <<ErrorOn(<<"a">>)>> }

\* lines 170-177: the line a display shows for an error
DisplayLine(error) == <<" ", "-", " ">> \o error[1] \o <<":", " ">> \o error[2]

InitHandler ==
    /\ pc = "idle"
    /\ fn = "none"
    /\ outcome = "none"
    /\ \E h \in InputHtmls :
          /\ writing_input = [html |-> h,
                              cursor |-> [anchor |-> 0, position |-> Len(h.text)],
                              scroll |-> 1]
          /\ html_before = h
    /\ grammar_errors = << >> /\ style_errors = << >>
    /\ original_text = EmptyStr
    /\ current_highlighted_error = NoHighlight
    /\ pre_highlight_html = NoHtml
    /\ pre_highlight_cursor = 0 /\ pre_highlight_scroll = 0
    /\ llm_result = [status |-> "none", content |-> EmptyStr]
    /\ XmlAtRest /\ GenAtRest /\ AnnAtRest /\ ChkAtRest /\ LocAtRest
    /\ AdpAtRest /\ CmpAtRest /\ CtlAtRest /\ ExtAtRest

\* the handler's fields take the values of h
HandlerBecomes(h) ==
    /\ writing_input' = h.writing_input
    /\ current_highlighted_error' = h.current_highlighted_error
    /\ pre_highlight_html' = h.pre_highlight_html
    /\ pre_highlight_cursor' = h.pre_highlight_cursor
    /\ pre_highlight_scroll' = h.pre_highlight_scroll

\* lines 81-108: one call of highlight_error
CallHighlightError(e, error_type) ==
    \E r \in highlight_error(Handler, e, error_type) :
        /\ HandlerBecomes(r.handler)
        /\ fn' = "highlight_error"
        /\ error_text' = e
        /\ doc_text' = IF e = EmptyStr THEN EmptyStr
                       ELSE r.handler.pre_highlight_html.html.text
        /\ cursor' = r.found.cursor
        /\ located_by' = r.found.by
        /\ outcome' = IF r.raised THEN "raised" ELSE "returned"

\* lines 136-147: one call of restore_original_text
CallRestoreOriginalText ==
    /\ HandlerBecomes(restore_original_text(Handler))
    /\ fn' = "restore_original_text"
    /\ outcome' = "returned"
    /\ doc_text' = EmptyStr /\ error_text' = EmptyStr
    /\ cursor' = NullCursor /\ located_by' = "none"

\* highlight_error called with a fragment and an error type
HighlightError ==
    /\ pc = "idle"
    /\ \E e \in HandlerFragments, error_type \in {"grammar", "style"} :
          CallHighlightError(e, error_type)
    /\ UNCHANGED <<pc, xmlVars, llm_result, genVars, annVars, chkVars, adpVars, cmpVars, ctlVars, extVars>>
    /\ UNCHANGED <<grammar_errors, style_errors, original_text, html_before>>

\* lines 44-49
UpdateErrors ==
    /\ pc = "idle"
    /\ \E g \in GrammarErrorLists, st \in StyleErrorLists :
          /\ grammar_errors' = g
          /\ style_errors' = st
    /\ original_text' = writing_input.html.text
    /\ CallRestoreOriginalText
    /\ UNCHANGED <<pc, xmlVars, llm_result, genVars, annVars, chkVars, html_before,
                   adpVars, cmpVars, ctlVars, extVars>>

\* lines 51-71: the mouse moves over a line of a display
HoverHandler ==
    /\ pc = "idle"
    /\ \E error_type \in {"grammar", "style"} :
          LET errors == IF error_type = "grammar" THEN grammar_errors
                        ELSE style_errors
          IN  \E line \in {EmptyStr} \cup {DisplayLine(errors[k]) : k \in 1..Len(errors)} :
                 LET k == FirstErrorInLine(errors, line)
                 IN  IF k # 0
                     THEN CallHighlightError(errors[k][1], error_type)
                     ELSE IF ~current_highlighted_error.isNone
                          THEN CallRestoreOriginalText
                          ELSE UNCHANGED <<fn, outcome, locVars, writing_input,
                                           current_highlighted_error,
                                           pre_highlight_html, pre_highlight_cursor,
                                           pre_highlight_scroll>>
    /\ UNCHANGED <<pc, xmlVars, llm_result, genVars, annVars, chkVars, adpVars, cmpVars, ctlVars, extVars>>
    /\ UNCHANGED <<grammar_errors, style_errors, original_text, html_before>>

\* lines 73-79: the mouse leaves the display
LeaveHandler ==
    /\ pc = "idle"
    /\ CallRestoreOriginalText
    /\ UNCHANGED <<pc, xmlVars, llm_result, genVars, annVars, chkVars, adpVars, cmpVars, ctlVars, extVars>>
    /\ UNCHANGED <<grammar_errors, style_errors, original_text, html_before>>

NextHandler ==
    \/ HighlightError
    \/ UpdateErrors
    \/ HoverHandler
    \/ LeaveHandler

SpecHandler == InitHandler /\ [][NextHandler]_vars

(* C11: for every non-empty fragment that neither the exact nor the        *)
(* relaxed search locates, highlight_error does not raise, the writing     *)
(* input holds its HTML without a highlight, and no error is marked as     *)
(* highlighted.                                                            *)
C11_NoMatchNoRaise ==
    (fn = "highlight_error" /\ error_text # EmptyStr /\ located_by = "none")
    => /\ outcome = "returned"
       /\ writing_input.html = html_before
       /\ current_highlighted_error.isNone

\* html with the background of an error type on the span the locator finds
\* for fragment e
HighlightedOnce(html, e, error_type) ==
    LET found == FindAndHighlightError(html.text, e).cursor
    IN  [html EXCEPT
           !.bg = [i \in 1..Len(html.text) |->
                     IF ~found.isNull /\ found.anchor < i /\ i <= found.position
                     THEN BgColor(error_type) ELSE html.bg[i]]]

(* C12: locating accumulates no state. After restore_original_text the     *)
(* writing input holds the HTML it had before the first highlight, and a   *)
(* highlight_error that returns gives what highlighting that fragment on   *)
(* that HTML gives the first time, whatever calls went before.             *)
C12_NoAccumulatedState ==
    /\ fn = "restore_original_text" =>
          /\ writing_input.html = html_before
          /\ current_highlighted_error.isNone
    /\ (fn = "highlight_error" /\ outcome = "returned" /\ error_text # EmptyStr) =>
          /\ cursor = FindAndHighlightError(html_before.text, error_text).cursor
          /\ IF current_highlighted_error.isNone
             THEN writing_input.html = html_before
             ELSE /\ current_highlighted_error.error_text = error_text
                  /\ writing_input.html =
                        HighlightedOnce(html_before, error_text,
                                        current_highlighted_error.error_type)

\* a highlight was set and taken back: the widget holds the first HTML again,
\* its text cursor where setHtml and line 142 put it
C12_Witness ==
    /\ fn = "restore_original_text"
    /\ html_before.text # EmptyStr
    /\ writing_input.html = html_before
    /\ writing_input.cursor.anchor = Len(html_before.text)
    /\ pre_highlight_html.isNone
    /\ pre_highlight_cursor = Len(html_before.text)

-----------------------------------------------------------------------------
(* Specification SpecAdapter: the two adapters constructed in some         *)
(* environment, then their setters called in any order                     *)

AdapterKeys == { EmptyStr, <<"k">>, <<"j">> }
AdapterUrls == { <<"u">>, <<"v">> }

\* the environments an adapter may be constructed in
Environments ==
    { [name \in DOMAIN NoEnviron |->
         IF name = "OPENROUTER_API_KEY" THEN k1
         ELSE IF name = "OPENROUTER_BASE_URL" THEN u1
         ELSE IF name = "OPENAI_API_KEY" THEN k2 ELSE u2] :
        k1 \in {Unset, EnvValue(EmptyStr), EnvValue(<<"k">>)},
        u1 \in {Unset, EnvValue(<<"u">>)},
        k2 \in {Unset, EnvValue(EmptyStr), EnvValue(<<"k">>)},
        u2 \in {Unset, EnvValue(<<"u">>)} }

\* both adapters as their __init__ leaves them in environment env
Constructed(env) ==
    /\ environ = env
    /\ environ_at_construction = env
    /\ litellm = LiteLLM_init(env, None)
    /\ openai_llm = OpenAILLM_init(env)
    /\ last_set = [a \in Adapters |-> NeverSet]

InitAdapter ==
    /\ pc = "idle"
    /\ fn = "none"
    /\ outcome = "none"
    /\ adapter = "none"
    /\ \E env \in Environments : Constructed(env)
    /\ llm_result = [status |-> "none", content |-> EmptyStr]
    /\ XmlAtRest /\ GenAtRest /\ AnnAtRest /\ ChkAtRest /\ LocAtRest
    /\ HdlAtRest /\ CmpAtRest /\ CtlAtRest /\ ExtAtRest

\* the adapters' state takes the values of w
WorldBecomes(w) ==
    /\ environ' = w.environ
    /\ litellm' = w.litellm
    /\ openai_llm' = w.openai_llm

SetApiKey ==
    /\ pc = "idle"
    /\ \E a \in Adapters, key \in AdapterKeys :
          /\ WorldBecomes(set_api_key(World, a, key))
          /\ adapter' = a
          /\ last_set' = [last_set EXCEPT ![a].key = Some(key)]
    /\ fn' = "set_api_key"
    /\ outcome' = "returned"
    /\ UNCHANGED <<pc, xmlVars, llm_result, genVars, annVars, chkVars, locVars,
                   hdlVars, environ_at_construction, cmpVars, ctlVars, extVars>>

SetBaseUrl ==
    /\ pc = "idle"
    /\ \E a \in Adapters, url \in AdapterUrls :
          /\ WorldBecomes(set_base_url(World, a, url))
          /\ adapter' = a
          /\ last_set' = [last_set EXCEPT ![a].url = Some(url)]
    /\ fn' = "set_base_url"
    /\ outcome' = "returned"
    /\ UNCHANGED <<pc, xmlVars, llm_result, genVars, annVars, chkVars, locVars,
                   hdlVars, environ_at_construction, cmpVars, ctlVars, extVars>>

NextAdapter ==
    \/ SetApiKey
    \/ SetBaseUrl

SpecAdapter == InitAdapter /\ [][NextAdapter]_vars

\* the key an adapter should hold: the last one given to set_api_key, before
\* any the one of the environment at construction, "" when there was none
KeyInForce(a) ==
    IF ~last_set[a].key.isNone THEN last_set[a].key.value
    ELSE IF environ_at_construction[KeyVariable(a)].set
         THEN environ_at_construction[KeyVariable(a)].value
         ELSE EmptyStr

(* C17: on both adapters, after any sequence of set_api_key calls,         *)
(* is_configured() is true exactly when the most recently set key is a     *)
(* non-empty string, and get_api_key() returns that key, the empty string  *)
(* when no key was ever available.                                         *)
C17_ConfiguredIffKey ==
    \A a \in Adapters :
        /\ is_configured(World, a) <=> (KeyInForce(a) # EmptyStr)
        /\ get_api_key(World, a) = KeyInForce(a)

\* a key from the environment was replaced by the empty key
C17_Witness ==
    /\ fn = "set_api_key"
    /\ adapter = "LiteLLM"
    /\ environ_at_construction["OPENROUTER_API_KEY"] = EnvValue(<<"k">>)
    /\ last_set["LiteLLM"].key = Some(EmptyStr)
    /\ ~is_configured(World, "LiteLLM")
    /\ last_set["OpenAILLM"].key = Some(<<"j">>)
    /\ is_configured(World, "OpenAILLM")

\* what a variable of the environment should hold: the last value a setter
\* gave it, before any the value at construction
VariableInForce(last, name) ==
    IF ~last.isNone THEN EnvValue(last.value) ELSE environ_at_construction[name]

(* C18: an adapter starts with the API key and base URL of the            *)
(* environment at construction, its default base URL when none is set;     *)
(* set_api_key changes only the key and set_base_url only the base URL,    *)
(* and after each call the getter and the adapter's environment variable   *)
(* hold the new value.                                                     *)
C18_EnvironmentAndSetters ==
    \A a \in Adapters :
        LET key == VariableInForce(last_set[a].key, KeyVariable(a))
            url == VariableInForce(last_set[a].url, UrlVariable(a))
            default_url == IF a = "LiteLLM" THEN LiteDefaultBaseUrl
                           ELSE OpenAIDefaultBaseUrl
        IN  /\ environ[KeyVariable(a)] = key
            /\ environ[UrlVariable(a)] = url
            /\ get_api_key(World, a) = IF key.set THEN key.value ELSE EmptyStr
            /\ get_base_url(World, a) = IF url.set THEN url.value ELSE default_url

\* a key was set on an adapter that still has its default base URL, and a
\* base URL on the other, which still has the key of the environment
C18_Witness ==
    /\ last_set["LiteLLM"].key = Some(<<"j">>)
    /\ last_set["LiteLLM"].url.isNone
    /\ ~environ_at_construction["OPENROUTER_BASE_URL"].set
    /\ get_base_url(World, "LiteLLM") = LiteDefaultBaseUrl
    /\ environ["OPENROUTER_API_KEY"] = EnvValue(<<"j">>)
    /\ last_set["OpenAILLM"].url = Some(<<"v">>)
    /\ last_set["OpenAILLM"].key.isNone
    /\ get_api_key(World, "OpenAILLM") = <<"k">>
    /\ environ["OPENAI_BASE_URL"] = EnvValue(<<"v">>)

-----------------------------------------------------------------------------
(* Specification SpecCompletion: one completion() call on an adapter       *)

\* the most pieces in a model id
MaxModelPieces == 3
\* the most tokens on either side of a response
MaxTokens == 1

ModelPieces == { <<"v", "/">>, <<"m">>, <<":", "t">>, <<"u">> }

\* the examples of the specification
VendorModelXVariant ==
    <<"v","e","n","d","o","r","/","m","o","d","e","l","-","x",":",
      "v","a","r","i","a","n","t">>
VendorUnknownModel ==
    <<"v","e","n","d","o","r","/","u","n","k","n","o","w","n","-",
      "m","o","d","e","l">>
ModelX == <<"m","o","d","e","l","-","x">>

ModelIds ==
    Texts(ModelPieces, MaxModelPieces) \cup {VendorModelXVariant, VendorUnknownModel}

\* a price entry; prices in units of 1e-8 USD per token
Price(name, input, output) ==
    [name |-> name, input_cost_per_token |-> input, output_cost_per_token |-> output]

\* the tables MODEL_PRICE_PER_TOKEN may be: empty, a stripped key only, a
\* stripped and a fuller key at the same prices (as in config.py) or at
\* different ones, a free model, and the table of the example
PriceTables ==
    { {},
      {Price(<<"m">>, 1, 2)},
      {Price(<<"m">>, 1, 2), Price(<<"m", ":", "t">>, 1, 2)},
      {Price(<<"m">>, 1, 2), Price(<<"m", ":", "t">>, 2, 3)},
      {Price(<<"m">>, 0, 0)},
      {Price(ModelX, 15, 60)} }

\* what a backend request may fail with
BackendErrors == {"APIConnectionError", "AuthenticationError"}

ConfiguredEnviron ==
    [name \in DOMAIN NoEnviron |->
        IF name \in {"OPENROUTER_API_KEY", "OPENAI_API_KEY"}
        THEN EnvValue(<<"k">>) ELSE Unset]

InitCompletion ==
    /\ pc = "idle"
    /\ fn = "none"
    /\ outcome = "none"
    /\ adapter = "none"
    /\ Constructed(ConfiguredEnviron)
    /\ model \in ModelIds
    /\ price_table \in PriceTables
    /\ requests = 0
    /\ response = NoResponse
    /\ exception = "none"
    /\ cost = NoCost
    /\ llm_result = [status |-> "none", content |-> EmptyStr]
    /\ XmlAtRest /\ GenAtRest /\ AnnAtRest /\ ChkAtRest /\ LocAtRest
    /\ HdlAtRest /\ CtlAtRest /\ ExtAtRest

\* what a step of completion leaves alone besides the call itself
CompletionFrame ==
    UNCHANGED <<xmlVars, llm_result, genVars, annVars, chkVars, locVars, hdlVars,
                environ, litellm, openai_llm, environ_at_construction, last_set,
                model, price_table, ctlVars, extVars>>

\* completion(model, messages) is called on an adapter
CallCompletion ==
    /\ pc = "idle"
    /\ pc' = "called"
    /\ fn' = "completion"
    /\ adapter' \in Adapters
    /\ UNCHANGED <<outcome, requests, response, exception, cost>>
    /\ CompletionFrame

\* openai_impl.py lines 38-41: the openai library cannot be imported
OpenAIImportFails ==
    /\ pc = "called"
    /\ adapter = "OpenAILLM"
    /\ exception' = "RuntimeError"
    /\ outcome' = "raised"
    /\ pc' = "done"
    /\ UNCHANGED <<fn, adapter, requests, response, cost>>
    /\ CompletionFrame

\* lite.py lines 42-47, openai_impl.py lines 43-50: the request is made and
\* awaited
SendRequest ==
    /\ pc = "called"
    /\ requests' = requests + 1
    /\ pc' = "awaiting"
    /\ UNCHANGED <<fn, adapter, outcome, response, exception, cost>>
    /\ CompletionFrame

\* the backend answers
BackendResponds ==
    /\ pc = "awaiting"
    /\ \E p \in 0..MaxTokens, c \in 0..MaxTokens :
          response' = [status |-> "ok", content |-> <<"a">>, error |-> "none",
                       prompt_tokens |-> p, completion_tokens |-> c]
    /\ pc' = "responded"
    /\ UNCHANGED <<fn, adapter, outcome, requests, exception, cost>>
    /\ CompletionFrame

\* the request fails: the exception leaves completion
BackendFails ==
    /\ pc = "awaiting"
    /\ \E e \in BackendErrors :
          /\ response' = [NoResponse EXCEPT !.status = "error", !.error = e]
          /\ exception' = PropagatedException(e)
    /\ outcome' = "raised"
    /\ pc' = "done"
    /\ UNCHANGED <<fn, adapter, requests, cost>>
    /\ CompletionFrame

\* lite.py lines 49-54, openai_impl.py lines 51-53
CompletionReturns ==
    /\ pc = "responded"
    /\ cost' = CompletionCost(adapter, model, price_table, response)
    /\ outcome' = "returned"
    /\ pc' = "done"
    /\ UNCHANGED <<fn, adapter, requests, response, exception>>
    /\ CompletionFrame

NextCompletion ==
    \/ CallCompletion
    \/ OpenAIImportFails
    \/ SendRequest
    \/ BackendResponds
    \/ BackendFails
    \/ CompletionReturns

SpecCompletion == InitCompletion /\ [][NextCompletion]_vars

CompletionDone == pc = "done" /\ fn = "completion"

\* n is m without everything up to its last "/" and, of what is left,
\* without everything from the first ":"
IsResolvedName(n, m) ==
    \E i \in 0..Len(m), j \in 1..(Len(m) + 1) :
        /\ i < j
        /\ i = 0 \/ m[i] = "/"
        /\ \A k \in (i + 1)..Len(m) : m[k] # "/"
        /\ j = Len(m) + 1 \/ m[j] = ":"
        /\ \A k \in (i + 1)..(j - 1) : m[k] # ":"
        /\ n = SubSeq(m, i + 1, j - 1)

(* C13: LiteLLM.completion resolves the price entry by removing everything *)
(* up to the last "/" and everything from the first ":" of the model id.   *)
(* It returns the cost computed from that entry when the table has one     *)
(* ("vendor/model-x:variant" resolves to "model-x"), and None, not zero,   *)
(* when it has none ("vendor/unknown-model").                              *)
C13_CostResolution ==
    (CompletionDone /\ adapter = "LiteLLM" /\ outcome = "returned") =>
        /\ \A e \in price_table :
              IsResolvedName(e.name, model) =>
                  cost = Amount(response.prompt_tokens * e.input_cost_per_token
                                + response.completion_tokens * e.output_cost_per_token)
        /\ (\A e \in price_table : ~IsResolvedName(e.name, model)) => cost.isNone
        /\ (model = VendorModelXVariant /\ price_table = {Price(ModelX, 15, 60)}) =>
              cost = Amount(15 * response.prompt_tokens + 60 * response.completion_tokens)
        /\ model = VendorUnknownModel => cost.isNone

\* the example: "vendor/model-x:variant" priced with the "model-x" entry
C13_Witness ==
    /\ CompletionDone /\ adapter = "LiteLLM" /\ outcome = "returned"
    /\ model = VendorModelXVariant
    /\ price_table = {Price(ModelX, 15, 60)}
    /\ response.prompt_tokens = 1 /\ response.completion_tokens = 1
    /\ cost = Amount(75)

(* C14: when the price table holds both the stripped key and the fuller    *)
(* key with the variant, a completion for "vendor/family-name:variant" is  *)
(* priced with the fuller, more specific entry.                            *)
C14_FullerKeyPreferred ==
    (CompletionDone /\ adapter = "LiteLLM" /\ outcome = "returned") =>
        \A stripped \in price_table, fuller \in price_table :
            ( /\ IsResolvedName(stripped.name, model)
              /\ fuller.name = AfterLastSlash(model)
              /\ fuller.name # stripped.name )
            => cost = Amount(response.prompt_tokens * fuller.input_cost_per_token
                             + response.completion_tokens * fuller.output_cost_per_token)

(* C19 as stated: each completion() call makes exactly one backend         *)
(* request; when that request fails, the same exception reaches the caller *)
(* and no second request is made.                                          *)
C19_ExactlyOneRequest ==
    CompletionDone =>
        /\ requests = 1
        /\ response.status = "error" =>
              (outcome = "raised" /\ exception = response.error)

(* C19, amended: a completion() call makes one backend request, or none    *)
(* when OpenAILLM cannot import the openai library and raises RuntimeError *)
(* before any request; when the request fails, the same exception reaches  *)
(* the caller and no second request is made.                               *)
C19_OneRequestUnlessImportFails ==
    CompletionDone =>
        /\ requests \in {0, 1}
        /\ requests = 0 <=>
              /\ adapter = "OpenAILLM"
              /\ response.status = "none"
              /\ outcome = "raised" /\ exception = "RuntimeError"
        /\ response.status = "error" =>
              (outcome = "raised" /\ exception = response.error /\ requests = 1)
        /\ response.status = "ok" => (outcome = "returned" /\ requests = 1)

\* a request failed and its exception left the call
C19_Witness ==
    /\ CompletionDone
    /\ adapter = "OpenAILLM"
    /\ requests = 1
    /\ response.status = "error"
    /\ outcome = "raised"
    /\ exception = "AuthenticationError"

-----------------------------------------------------------------------------
(* Specification SpecController: one call of a handler of the user         *)
(* interface (AppController._generate_exercise, AppController._check_writing, *)
(* QADialog._send_question), the core function the handler awaits and the  *)
(* completion of the LiteLLM adapter that the core function awaits         *)

\* f"Error: {str(e)}"
ErrorText(e) == <<"Error: ", e>>

\* feedback_handler.py lines 170-176: a line for every error with a fragment
RECURSIVE MistakeLines(_)
MistakeLines(mistakes) ==
    IF mistakes = << >> THEN EmptyStr
    ELSE (IF Head(mistakes)[1] # EmptyStr
          THEN DisplayLine(Head(mistakes)) \o <<"\n">> ELSE EmptyStr)
         \o MistakeLines(Tail(mistakes))

\* feedback_handler.py lines 150-177
format_mistakes_with_hover(mistakes) ==
    IF mistakes = << >> THEN <<"No mistakes found.">> ELSE MistakeLines(mistakes)

\* the setters of the status message and of the two buttons
Shows(ctl, status) == [ctl EXCEPT !.status_message = status]
GenerateButton(ctl, enabled, label) ==
    [ctl EXCEPT !.generate_button_enabled = enabled, !.generate_button_text = label]
CheckButton(ctl, enabled, label) ==
    [ctl EXCEPT !.check_button_enabled = enabled, !.check_button_text = label]

\* a handler that returns before it awaits anything, and one that goes on to
\* await the core function named
Returned(st, ctl) == [awaits |-> "none", state |-> st, controller |-> ctl]
Awaits(core_fn, st, ctl) == [awaits |-> core_fn, state |-> st, controller |-> ctl]

NotConfigured ==
    Status("API Key not configured. Please set your OpenRouter API key in Settings.",
           NoCost, "none")

\* app_controller.py lines 479-528: _generate_exercise up to its await
GenerateExerciseBegin(st, ctl, w) ==
    IF st.selected_exercise = "Custom"
    THEN IF Strip(st.generated_exercise) = EmptyStr
         THEN Returned(st, Shows(ctl,
                  Status("Enter your custom exercise in the text box above.",
                         NoCost, "none")))
         ELSE IF ~is_configured(w, "LiteLLM")
         THEN Returned(st, Shows(ctl, NotConfigured))
         ELSE Awaits("generate_custom_hints", st,
                  Shows(GenerateButton(ctl, FALSE, "Generating..."),
                        Status("Generating hints for custom exercise...",
                               NoCost, "none")))
    ELSE IF st.selected_language = "" \/ st.selected_exercise = ""
    THEN Returned(st, Shows(ctl,
             Status("Please select both a language and an exercise type.",
                    NoCost, "none")))
    ELSE IF ~is_configured(w, "LiteLLM")
    THEN Returned(st, Shows(ctl, NotConfigured))
    ELSE Awaits("generate_exercise", st,
             Shows(GenerateButton(ctl, FALSE, "Generating..."),
                   Status("Generating exercise...", NoCost, "none")))

\* the exception a try block ends with whose last statement formats the cost
\* with f"{cost:.4f}" or f"{cost:.6f}": the exception of the awaited call,
\* TypeError when the cost to format is None, "none" when there is none
RaisedInTry(c, formats_cost) ==
    IF c.outcome = "raised" THEN c.exception
    ELSE IF formats_cost /\ c.cost.isNone THEN "TypeError"
    ELSE "none"

\* app_controller.py lines 495-512: the custom branch after its await;
\* c is the call of generate_custom_hints and new_hints what it returned
CustomHintsEnd(st, ctl, c, new_hints) ==
    LET raised == RaisedInTry(c, TRUE)
        \* line 502
        assigned == IF c.outcome = "raised" THEN st
                    ELSE [st EXCEPT !.generated_hints = new_hints]
    IN  IF raised = "none"
        THEN [state |-> assigned,
              controller |->
                  GenerateButton(Shows(ctl, Status("Hints generated!", c.cost, "none")),
                                 TRUE, "Generate Hints")]
        ELSE [state |-> [assigned EXCEPT !.generated_hints = ErrorText(raised)],
              controller |->
                  GenerateButton(Shows(ctl, Status("Error generating hints", NoCost, raised)),
                                 TRUE, "Generate Hints")]

\* _generate_exercise whose except branch leaves the exercise as it was
GenerateExerciseEnd_KeepsExercise(st, ctl, c, new_exercise, new_hints) ==
    LET raised == RaisedInTry(c, TRUE)
        assigned == IF c.outcome = "raised" THEN st
                    ELSE [st EXCEPT !.generated_exercise = new_exercise,
                                    !.generated_hints = new_hints]
    IN  IF raised = "none"
        THEN [state |-> assigned,
              controller |->
                  GenerateButton(Shows(ctl, Status("Exercise generated!", c.cost, "none")),
                                 TRUE, "Generate Exercise")]
        ELSE [state |-> assigned,
              controller |->
                  GenerateButton(Shows(ctl, Status("Error generating exercise", NoCost, raised)),
                                 TRUE, "Generate Exercise")]

\* app_controller.py lines 530-556: _generate_exercise after its await
GenerateExerciseEnd(st, ctl, c, new_exercise, new_hints) ==
    LET raised == RaisedInTry(c, TRUE)
        \* lines 541-542
        assigned == IF c.outcome = "raised" THEN st
                    ELSE [st EXCEPT !.generated_exercise = new_exercise,
                                    !.generated_hints = new_hints]
    IN  IF raised = "none"
        THEN [state |-> assigned,
              controller |->
                  GenerateButton(Shows(ctl, Status("Exercise generated!", c.cost, "none")),
                                 TRUE, "Generate Exercise")]
        ELSE [state |-> [assigned EXCEPT !.generated_exercise = ErrorText(raised)],
              controller |->
                  GenerateButton(Shows(ctl, Status("Error generating exercise", NoCost, raised)),
                                 TRUE, "Generate Exercise")]

\* app_controller.py lines 560-575: _check_writing up to its await
CheckWritingBegin(st, ctl, w) ==
    IF st.generated_exercise = EmptyStr \/ st.writing_input = EmptyStr
    THEN Returned(st, Shows(ctl,
             Status("Please generate an exercise and write something first.",
                    NoCost, "none")))
    ELSE IF ~is_configured(w, "LiteLLM")
    THEN Returned(st, Shows(ctl, NotConfigured))
    ELSE Awaits("check_writing", st,
             Shows(CheckButton(ctl, FALSE, "Checking..."),
                   Status("Checking your writing...", NoCost, "none")))

\* app_controller.py lines 577-612: _check_writing after its await
CheckWritingEnd(st, ctl, c, mistakes, new_style_errors, new_recommendations) ==
    LET raised == RaisedInTry(c, TRUE)
        \* lines 590-596
        assigned ==
            IF c.outcome = "raised" THEN st
            ELSE [st EXCEPT !.grammar_errors_raw = mistakes,
                            !.style_errors_raw = new_style_errors,
                            !.writing_mistakes = format_mistakes_with_hover(mistakes),
                            !.style_errors = format_mistakes_with_hover(new_style_errors),
                            !.recommendations = new_recommendations]
    IN  IF raised = "none"
        THEN [state |-> assigned,
              controller |->
                  CheckButton(Shows(ctl, Status("Feedback provided!", c.cost, "none")),
                              TRUE, "Check Writing")]
        ELSE [state |-> [assigned EXCEPT !.writing_mistakes = ErrorText(raised)],
              controller |->
                  CheckButton(Shows(ctl, Status("Error checking writing", NoCost, raised)),
                              TRUE, "Check Writing")]

\* qa_dialog.py lines 149-166: _send_question up to its await; lite is the
\* litellm module
SendQuestionBegin(dlg, lite) ==
    IF dlg.question = EmptyStr
    THEN [awaits |-> "none", qa_dialog |-> [dlg EXCEPT !.message_box = "Empty Question"]]
    ELSE IF lite.api_key.isNone \/ lite.api_key.value = EmptyStr
    THEN [awaits |-> "none", qa_dialog |-> [dlg EXCEPT !.message_box = "API Key Required"]]
    ELSE [awaits |-> "answer_question",
          qa_dialog |-> [dlg EXCEPT !.send_enabled = FALSE, !.send_text = "Sending...",
                                    !.answer_display = <<"Generating answer...">>]]

\* qa_dialog.py line 182: "if cost:" is taken for a cost that is neither
\* None nor zero
CostIsTruthy(c) == ~c.isNone /\ c.amount # 0

\* qa_dialog.py lines 168-196: _send_question after its await
SendQuestionEnd(dlg, c) ==
    LET reset == [dlg EXCEPT !.send_enabled = TRUE, !.send_text = "Send"]
    IN  IF c.outcome = "raised"
        THEN [reset EXCEPT !.message_box = "Error",
                           !.answer_display = ErrorText(c.exception)]
        ELSE IF CostIsTruthy(c.cost)
        THEN [reset EXCEPT !.last_response = c.answer, !.answer_display = c.answer,
                           !.last_cost = c.cost.amount,
                           !.cost_display = CostShown(c.cost.amount)]
        ELSE [reset EXCEPT !.last_response = c.answer, !.answer_display = c.answer,
                           !.cost_display = CostUnknown]

\* the answer trimmed
AnswerOf_Stripped(message_content) == Strip(message_content)

\* qa.py lines 37-38: answer = response.choices[0].message.content
AnswerOf(message_content) == message_content

\* exercise.py lines 79, 122, 225 and qa.py line 34: the awaited completion
\* stands in no try block, so its exception is the one the core function
\* raises
CoreRaised_ValueError(e) == "ValueError"
CoreRaised(e) == e

\* the models and price tables of a call: a priced model, a free one, and
\* one with no entry
ControllerModels == { <<"m">>, <<"u">> }
ControllerPriceTables == { {Price(<<"m">>, 1, 2)}, {Price(<<"m">>, 0, 0)} }

\* what is selected in the window: nothing, a language only, an exercise
\* type, the custom exercise
Selections ==
    { [language |-> "", exercise |-> ""], [language |-> "pl", exercise |-> ""],
      [language |-> "pl", exercise |-> "Essay"],
      [language |-> "pl", exercise |-> "Custom"] }

\* what the backend may answer to the prompt of a core function
BothTags ==
    OpenTag(ExerciseTag) \o <<"a">> \o CloseTag(ExerciseTag)
    \o OpenTag(HintsTag) \o <<"b">> \o CloseTag(HintsTag)
OneMistake ==
    [kind |-> "bullets",
     items |-> <<[fragment |-> <<"a">>, explanation |-> <<"x">>]>>,
     body |-> <<"\n">>
              \o RenderBullets(<<[fragment |-> <<"a">>, explanation |-> <<"x">>]>>, EmptyStr)
              \o <<"\n">>]
NoMistake == [kind |-> "none", items |-> << >>, body |-> <<"N","o","n","e",".">>]
BackendAnswers(core_fn) ==
    CASE core_fn = "generate_exercise" ->
            { BothTags, OpenTag(ExerciseTag) \o <<"a">> \o CloseTag(ExerciseTag) }
      [] core_fn = "generate_custom_hints" ->
            { BothTags, <<"a">> }
      [] core_fn = "check_writing" ->
            { RenderFeedback(OneMistake, NoMistake, <<"r">>),
              RenderFeedback(NoMistake, OneMistake, <<"N","o","n","e",".">>) }
      [] OTHER ->
            { EmptyStr, <<" ", "a", " ">>, BothTags }

\* the environment in which the key variables are set to the empty string
EmptyKeyEnviron ==
    [name \in DOMAIN NoEnviron |->
        IF name \in {"OPENROUTER_API_KEY", "OPENAI_API_KEY"}
        THEN EnvValue(EmptyStr) ELSE Unset]

InitController ==
    /\ pc = "idle"
    /\ fn = "none"
    /\ outcome = "none"
    /\ adapter = "none"
    /\ \E env \in {ConfiguredEnviron, NoEnviron, EmptyKeyEnviron} : Constructed(env)
    /\ model \in ControllerModels
    /\ price_table \in ControllerPriceTables
    /\ requests = 0
    /\ response = NoResponse
    /\ exception = "none"
    /\ cost = NoCost
    /\ llm_result = [status |-> "none", content |-> EmptyStr]
    /\ core = NoCore
    /\ \E sel \in Selections, shown \in {EmptyStr, <<"a">>},
          written \in {EmptyStr, <<"b">>} :
          state = [LanguageTutorState EXCEPT
                       !.selected_language = sel.language,
                       !.selected_exercise = sel.exercise,
                       !.generated_exercise = shown,
                       !.writing_input = written]
    /\ controller = AppController_init
    /\ \E q \in {EmptyStr, <<"q">>} :
          qa_dialog = [QADialog_init EXCEPT !.question = q]
    /\ XmlAtRest /\ GenAtRest /\ AnnAtRest /\ ChkAtRest /\ LocAtRest
    /\ HdlAtRest /\ ExtAtRest

\* what a step of a handler leaves alone besides the call itself
ControllerFrame ==
    UNCHANGED <<xmlVars, annVars, locVars, hdlVars, environ, litellm,
                openai_llm, environ_at_construction, last_set, model,
                price_table, outcome, extVars>>

\* the handler either returns at once or awaits the core function, which
\* runs up to its own await of llm.completion (exercise.py lines 79, 122,
\* 225, qa.py line 34)
HandlerBegins(handler, begun) ==
    /\ fn' = handler
    /\ IF begun.awaits = "none"
       THEN pc' = "done" /\ core' = core /\ adapter' = adapter
       ELSE /\ pc' = "awaiting"
            /\ core' = [NoCore EXCEPT !.fn = begun.awaits, !.calls = 1]
            /\ adapter' = "LiteLLM"
    /\ UNCHANGED <<llm_result, genVars, chkVars, requests, response, exception,
                   cost>>
    /\ ControllerFrame

\* app_controller.py lines 477-528
GenerateExercise ==
    /\ pc = "idle"
    /\ LET begun == GenerateExerciseBegin(state, controller, World)
       IN  /\ state' = begun.state
           /\ controller' = begun.controller
           /\ HandlerBegins("_generate_exercise", begun)
    /\ UNCHANGED qa_dialog

\* app_controller.py lines 558-575
CheckWriting ==
    /\ pc = "idle"
    /\ LET begun == CheckWritingBegin(state, controller, World)
       IN  /\ state' = begun.state
           /\ controller' = begun.controller
           /\ HandlerBegins("_check_writing", begun)
    /\ UNCHANGED qa_dialog

\* qa_dialog.py lines 147-166
SendQuestion ==
    /\ pc = "idle"
    /\ LET begun == SendQuestionBegin(qa_dialog, litellm)
       IN  /\ qa_dialog' = begun.qa_dialog
           /\ HandlerBegins("_send_question", begun)
    /\ UNCHANGED <<state, controller>>

\* lite.py lines 41-54: the awaited completion returns the response and the
\* cost
AdapterReturns ==
    /\ pc = "awaiting"
    /\ \E answer \in BackendAnswers(core.fn),
          p \in 0..MaxTokens, c \in 0..MaxTokens :
          /\ response' = [status |-> "ok", content |-> answer, error |-> "none",
                          prompt_tokens |-> p, completion_tokens |-> c]
          /\ llm_result' = [status |-> "ok", content |-> answer]
    /\ requests' = requests + 1
    /\ cost' = CompletionCost(adapter, model, price_table, response')
    /\ pc' = "responded"
    /\ UNCHANGED <<fn, adapter, genVars, chkVars, exception, ctlVars, extVars>>
    /\ ControllerFrame

\* lite.py lines 42-47: the awaited completion raises
AdapterRaises ==
    /\ pc = "awaiting"
    /\ \E e \in BackendErrors :
          /\ response' = [NoResponse EXCEPT !.status = "error", !.error = e]
          /\ exception' = PropagatedException(e)
    /\ llm_result' = [status |-> "error", content |-> EmptyStr]
    /\ requests' = requests + 1
    /\ pc' = "raising"
    /\ UNCHANGED <<fn, adapter, genVars, chkVars, cost, ctlVars, extVars>>
    /\ ControllerFrame

\* exercise.py lines 81-91, 124-129, 226-247 and qa.py lines 37-38: the core
\* function parses the response and returns
CoreReturns ==
    /\ pc = "responded"
    /\ exercise_text' = IF core.fn = "generate_exercise"
                        THEN ParseExercise(llm_result.content) ELSE exercise_text
    /\ hints' = IF core.fn \in {"generate_exercise", "generate_custom_hints"}
                THEN ParseHints(llm_result.content) ELSE hints
    /\ mistakes_list' = IF core.fn = "check_writing"
                        THEN MistakesList(llm_result.content) ELSE mistakes_list
    /\ style_errors_list' = IF core.fn = "check_writing"
                            THEN StyleErrorsList(llm_result.content)
                            ELSE style_errors_list
    /\ recommendations' = IF core.fn = "check_writing"
                          THEN RecommendationsContent(llm_result.content)
                          ELSE recommendations
    /\ core' = [core EXCEPT !.outcome = "returned", !.cost = cost,
                            !.answer = IF core.fn = "answer_question"
                                       THEN AnswerOf(llm_result.content)
                                       ELSE EmptyStr]
    /\ pc' = "resumed"
    /\ UNCHANGED <<fn, adapter, llm_result, requests, response, exception, cost,
                   state, controller, qa_dialog>>
    /\ ControllerFrame

\* the exception of the completion leaves the core function
CoreRaises ==
    /\ pc = "raising"
    /\ core' = [core EXCEPT !.outcome = "raised",
                            !.exception = CoreRaised(exception)]
    /\ pc' = "resumed"
    /\ UNCHANGED <<fn, adapter, llm_result, genVars, chkVars, requests, response,
                   exception, cost, state, controller, qa_dialog>>
    /\ ControllerFrame

\* what is left alone when a handler goes on after its await
HandlerEnds ==
    /\ pc' = "done"
    /\ UNCHANGED <<fn, adapter, llm_result, genVars, chkVars, requests, response,
                   exception, cost, core>>
    /\ ControllerFrame

\* app_controller.py lines 495-512 and 530-556
GenerateExerciseResumes ==
    /\ pc = "resumed"
    /\ fn = "_generate_exercise"
    /\ LET ended == IF core.fn = "generate_custom_hints"
                    THEN CustomHintsEnd(state, controller, core, hints)
                    ELSE GenerateExerciseEnd(state, controller, core,
                                             exercise_text, hints)
       IN  /\ state' = ended.state
           /\ controller' = ended.controller
    /\ UNCHANGED qa_dialog
    /\ HandlerEnds

\* app_controller.py lines 577-612
CheckWritingResumes ==
    /\ pc = "resumed"
    /\ fn = "_check_writing"
    /\ LET ended == CheckWritingEnd(state, controller, core, mistakes_list,
                                    style_errors_list, recommendations)
       IN  /\ state' = ended.state
           /\ controller' = ended.controller
    /\ UNCHANGED qa_dialog
    /\ HandlerEnds

\* qa_dialog.py lines 168-196
SendQuestionResumes ==
    /\ pc = "resumed"
    /\ fn = "_send_question"
    /\ qa_dialog' = SendQuestionEnd(qa_dialog, core)
    /\ UNCHANGED <<state, controller>>
    /\ HandlerEnds

NextController ==
    \/ GenerateExercise
    \/ CheckWriting
    \/ SendQuestion
    \/ AdapterReturns
    \/ AdapterRaises
    \/ CoreReturns
    \/ CoreRaises
    \/ GenerateExerciseResumes
    \/ CheckWritingResumes
    \/ SendQuestionResumes

SpecController == InitController /\ [][NextController]_vars

\* a handler of the controller is over whose core function returned
ControllerDone(core_fn) ==
    /\ pc = "done"
    /\ fn \in {"_generate_exercise", "_check_writing"}
    /\ core.fn = core_fn
    /\ core.outcome = "returned"

(* C15: when the backend call succeeds and the cost it returns is None,    *)
(* _generate_exercise and _check_writing keep the exercise, the hints and  *)
(* the feedback the core function returned in the state, show no error     *)
(* message and replace none of that content with error text.               *)
C15_UnknownCostIsNoError ==
    /\ (ControllerDone("generate_exercise") /\ core.cost.isNone) =>
          /\ controller.status_message.error = "none"
          /\ state.generated_exercise = exercise_text
          /\ state.generated_hints = hints
    /\ (ControllerDone("generate_custom_hints") /\ core.cost.isNone) =>
          /\ controller.status_message.error = "none"
          /\ state.generated_hints = hints
    /\ (ControllerDone("check_writing") /\ core.cost.isNone) =>
          /\ controller.status_message.error = "none"
          /\ state.writing_mistakes = format_mistakes_with_hover(mistakes_list)
          /\ state.style_errors = format_mistakes_with_hover(style_errors_list)
          /\ state.recommendations = recommendations

(* C16: a cost of zero is kept apart from an unknown cost where the cost   *)
(* is computed and where it is shown: completion returns None only when    *)
(* the price table has no entry for the model, and the QA dialog shows a   *)
(* cost of zero as the amount 0 and only a cost of None as unknown.        *)
C16_ZeroCostIsAnAmount ==
    (pc = "done" /\ fn = "_send_question" /\ core.outcome = "returned") =>
        /\ core.cost.isNone <=> ~PriceGet(price_table, ModelName(model)).found
        /\ qa_dialog.cost_display =
               IF core.cost.isNone THEN CostUnknown
               ELSE CostShown(core.cost.amount)

(* C20: when the completion a core function awaits raises,                 *)
(* generate_exercise, generate_custom_hints, check_writing and             *)
(* answer_question raise that same exception to their caller, return no    *)
(* result and make no further completion call.                             *)
C20_CoreRaisesTheSame ==
    (core.fn # "none" /\ exception # "none") =>
        /\ core.fn \in {"generate_exercise", "generate_custom_hints",
                        "check_writing", "answer_question"}
        /\ exception = response.error
        /\ pc \in {"resumed", "done"} =>
              (core.outcome = "raised" /\ core.exception = exception)
        /\ core.outcome # "returned"
        /\ GenAtRest /\ ChkAtRest
        /\ core.answer = EmptyStr /\ core.cost = NoCost
        /\ core.calls = 1 /\ requests = 1

\* check_writing raised the AuthenticationError of its completion and the
\* handler that awaited it got that exception
C20_Witness ==
    /\ pc = "done"
    /\ fn = "_check_writing"
    /\ core.fn = "check_writing"
    /\ core.outcome = "raised"
    /\ exception = "AuthenticationError"
    /\ core.exception = "AuthenticationError"
    /\ controller.status_message.error = "AuthenticationError"
    /\ core.calls = 1

-----------------------------------------------------------------------------
(* Specification SpecInFlight: completion calls issued on the adapters     *)
(* while the setters are called and further calls are issued               *)

\* the most completion calls issued in a run
MaxCalls == 2

\* the keys and base URLs a settings update may set
RotatedKeys == { <<"k">>, <<"j">> }
RotatedUrls == { <<"u">>, <<"v">> }

\* a request the library has not built yet, and one built with a key and a
\* base URL
NoRequest == [built |-> FALSE, api_key |-> EmptyStr, api_base |-> EmptyStr]
Request(key, url) == [built |-> TRUE, api_key |-> key, api_base |-> url]

\* lite.py lines 42-47: acompletion is given api_base as an argument, so the
\* base URL of the request is the one of the moment of the call; no api_key
\* is given
LiteLLM_Issue(w) ==
    [adapter |-> "LiteLLM",
     key_at_issuance |-> get_api_key(w, "LiteLLM"),
     url_at_issuance |-> get_base_url(w, "LiteLLM"),
     api_base |-> w.litellm.base_url,
     request |-> NoRequest,
     stage |-> "issued",
     response |-> NoRequest]

\* lite.py lines 42-47: the library takes the key from the module attribute
\* litellm.api_key when it builds the request, which acompletion does in an
\* executor thread after the call has been issued
KeyReadByLibrary(lite) ==
    IF lite.api_key.isNone THEN EmptyStr ELSE lite.api_key.value

\* openai_impl.py lines 43-45: the module attributes are set from the
\* adapter's fields
OpenAIModuleAtCall(w) ==
    [api_key |-> Some(w.openai_llm.api_key), api_base |-> w.openai_llm.base_url]

\* openai_impl.py lines 43-50: acreate builds its request from the module
\* attributes before it first suspends
OpenAILLM_Issue(w) ==
    [adapter |-> "OpenAILLM",
     key_at_issuance |-> get_api_key(w, "OpenAILLM"),
     url_at_issuance |-> get_base_url(w, "OpenAILLM"),
     api_base |-> OpenAIModuleAtCall(w).api_base,
     request |-> Request(OpenAIModuleAtCall(w).api_key.value,
                         OpenAIModuleAtCall(w).api_base),
     stage |-> "built",
     response |-> NoRequest]

InitInFlight ==
    /\ pc = "idle"
    /\ fn = "none"
    /\ outcome = "none"
    /\ adapter = "none"
    /\ Constructed(ConfiguredEnviron)
    /\ calls = << >>
    /\ openai_module = NoOpenAIModule
    /\ llm_result = [status |-> "none", content |-> EmptyStr]
    /\ XmlAtRest /\ GenAtRest /\ AnnAtRest /\ ChkAtRest /\ LocAtRest
    /\ HdlAtRest /\ CmpAtRest /\ CtlAtRest /\ FileAtRest /\ SlotAtRest

\* what a step of this specification leaves alone
InFlightFrame ==
    UNCHANGED <<pc, fn, outcome, adapter, xmlVars, llm_result, genVars, annVars,
                chkVars, locVars, hdlVars, environ_at_construction, last_set,
                cmpVars, ctlVars, fileVars, slotVars>>

\* lite.py lines 41-47: completion is called on the LiteLLM adapter
IssueLiteLLM ==
    /\ Len(calls) < MaxCalls
    /\ calls' = Append(calls, LiteLLM_Issue(World))
    /\ UNCHANGED <<environ, litellm, openai_llm, openai_module>>
    /\ InFlightFrame

\* openai_impl.py lines 37-50: completion is called on the OpenAILLM adapter
IssueOpenAILLM ==
    /\ Len(calls) < MaxCalls
    /\ openai_module' = OpenAIModuleAtCall(World)
    /\ calls' = Append(calls, OpenAILLM_Issue(World))
    /\ UNCHANGED <<environ, litellm, openai_llm>>
    /\ InFlightFrame

\* the library builds the request of a call issued on LiteLLM
LibraryBuildsRequest ==
    /\ \E i \in 1..Len(calls) :
          /\ calls[i].stage = "issued"
          /\ calls' = [calls EXCEPT
                 ![i].request = Request(KeyReadByLibrary(litellm),
                                        calls[i].api_base),
                 ![i].stage = "built"]
    /\ UNCHANGED <<environ, litellm, openai_llm, openai_module>>
    /\ InFlightFrame

\* the backend answers the request it was sent: the response is that of the
\* key and the base URL of the request
BackendAnswersRequest ==
    /\ \E i \in 1..Len(calls) :
          /\ calls[i].stage = "built"
          /\ calls' = [calls EXCEPT ![i].response = calls[i].request,
                                    ![i].stage = "returned"]
    /\ UNCHANGED <<environ, litellm, openai_llm, openai_module>>
    /\ InFlightFrame

\* a settings update sets the key of an adapter
RotateApiKey ==
    /\ \E a \in Adapters, key \in RotatedKeys :
          WorldBecomes(set_api_key(World, a, key))
    /\ UNCHANGED <<calls, openai_module>>
    /\ InFlightFrame

\* a settings update sets the base URL of an adapter
RotateBaseUrl ==
    /\ \E a \in Adapters, url \in RotatedUrls :
          WorldBecomes(set_base_url(World, a, url))
    /\ UNCHANGED <<calls, openai_module>>
    /\ InFlightFrame

NextInFlight ==
    \/ IssueLiteLLM
    \/ IssueOpenAILLM
    \/ LibraryBuildsRequest
    \/ BackendAnswersRequest
    \/ RotateApiKey
    \/ RotateBaseUrl

SpecInFlight == InitInFlight /\ [][NextInFlight]_vars

(* C21: a completion call uses the API key and the base URL configured at  *)
(* the moment it was issued: no set_api_key or set_base_url made while it  *)
(* is in flight and no completion issued concurrently changes its request  *)
(* or the response it returns.                                             *)
C21_CapturedAtIssuance ==
    \A i \in 1..Len(calls) :
        /\ calls[i].request.built =>
              /\ calls[i].request.api_key = calls[i].key_at_issuance
              /\ calls[i].request.api_base = calls[i].url_at_issuance
        /\ calls[i].stage = "returned" =>
              /\ calls[i].response.api_key = calls[i].key_at_issuance
              /\ calls[i].response.api_base = calls[i].url_at_issuance

(* C22: answer_question returns the message text of the backend exactly as *)
(* received, neither trimmed nor reduced to the content of a tag (an empty *)
(* response gives the empty string), together with the cost the adapter    *)
(* returned.                                                               *)
C22_AnswerVerbatim ==
    (core.fn = "answer_question" /\ core.outcome = "returned") =>
        /\ core.answer = response.content
        /\ core.cost = cost

\* answer_question returned a text with blanks around it and a cost
C22_Witness ==
    /\ core.fn = "answer_question"
    /\ core.outcome = "returned"
    /\ response.content = <<" ", "a", " ">>
    /\ core.answer = <<" ", "a", " ">>
    /\ core.cost = Amount(3)

(* C23: the controller never calls the adapter's completion while          *)
(* is_configured() is false: with no key, or an empty one,                 *)
(* _generate_exercise (normal and custom mode) and _check_writing return   *)
(* without a call of a core function or of completion, having changed      *)
(* nothing but the status message: the stored exercise, hints and feedback *)
(* are as before.                                                          *)
C23_NoCallWhenNotConfigured ==
    [][ (/\ pc = "idle"
         /\ fn' \in {"_generate_exercise", "_check_writing"}
         /\ get_api_key(World, "LiteLLM") = EmptyStr)
        => (/\ pc' = "done"
            /\ core' = NoCore
            /\ requests' = 0
            /\ state' = state
            /\ controller' = [controller EXCEPT
                                 !.status_message = controller'.status_message]) ]_vars

\* _generate_exercise in custom mode, with a custom exercise but an empty
\* key, has refused
C23_Witness ==
    /\ pc = "done"
    /\ fn = "_generate_exercise"
    /\ state.selected_exercise = "Custom"
    /\ state.generated_exercise = <<"a">>
    /\ litellm.api_key = Some(EmptyStr)
    /\ controller.status_message = NotConfigured
    /\ core = NoCore
    /\ requests = 0

-----------------------------------------------------------------------------
(* extract_content_from_xml on texts that hold a section more than once    *)

XmlDone == pc = "done" /\ fn = "extract_content_from_xml"

\* t holds <name>...</name> and, after it, <name>...</name> again
HasTwoPairs(t, name) ==
    \E i \in 1..Len(t) :
        /\ StartsAtIgnoreCase(t, OpenTag(name), i)
        /\ \E j \in (i + Len(OpenTag(name)))..Len(t) :
              /\ StartsAtIgnoreCase(t, CloseTag(name), j)
              /\ HasPair(SubSeq(t, j + Len(CloseTag(name)), Len(t)), name)

\* s holds a closing tag of name, in any letter case
HoldsClosingTag(s, name) ==
    \E k \in 1..Len(s) : StartsAtIgnoreCase(s, CloseTag(name), k)

(* C24: when text holds the same tag pair more than once,                  *)
(* extract_content_from_xml returns only what stands between the first     *)
(* opening tag and the first closing tag after it (trimmed, or the default *)
(* when that is empty or "none."), the tag names matched in any letter     *)
(* case; the result never spans two sections.                              *)
C24_FirstSectionOnly ==
    (XmlDone /\ HasTwoPairs(text, tag_name)) =>
        /\ \/ IsTrimOf(xml_result, PairContent(text, tag_name))
           \/ xml_result = default
        /\ xml_result = default =>
              \/ IsBlank(PairContent(text, tag_name))
              \/ IsNoneSentinel(PairContent(text, tag_name))
        /\ ~HoldsClosingTag(xml_result, tag_name)

\* two sections with tags in different letter cases: the first one is returned
C24_Witness ==
    /\ XmlDone
    /\ tag_name = ExerciseTag
    /\ text = UpperOpenTag \o <<" ", "a", "\n">> \o CloseTag(ExerciseTag) \o <<"\n">>
              \o OpenTag(ExerciseTag) \o <<"b">> \o UpperCloseTag
    /\ xml_result = <<"a">>

-----------------------------------------------------------------------------
(* Specification SpecState: a LanguageTutorState saved to a path and       *)
(* loaded back (state.py)                                                  *)

\* a Python tuple and a Python list of the same items are different values
PyTuple(items) == [py |-> "tuple", items |-> items]
PyList(items) == [py |-> "list", items |-> items]

\* exercise.py lines 155-157: a list of the tuples (error_text, explanation)
AsCheckWritingReturns(pairs) == [i \in DOMAIN pairs |-> PyTuple(pairs[i])]

\* the raw list as the tests build it: a list of lists
AsListOfLists(pairs) == [i \in DOMAIN pairs |-> PyList(pairs[i])]

\* json.dump and toml.dump write a tuple and a list alike, as an array
ArrayOfArrays(raw) == [i \in DOMAIN raw |-> raw[i].items]

\* json.load and toml.load read an array as a list
ListOfLists(arrays) == [i \in DOMAIN arrays |-> PyList(arrays[i])]

\* state.py lines 38-45: the format is that of the extension of the path
FormatOf(path) == IF path = "state.json" THEN "json" ELSE "toml"

\* state.py lines 27-45: save(path) writes asdict(self); strings are written
\* and read back as they are
save(st, path) ==
    [exists |-> TRUE, format |-> FormatOf(path),
     data |-> [st EXCEPT !.grammar_errors_raw = ArrayOfArrays(@),
                         !.style_errors_raw = ArrayOfArrays(@)]]

\* state.py lines 47-64: load(path) gives the default state when there is no
\* file and cls(**data) otherwise
load(file) ==
    IF ~file.exists THEN LanguageTutorState
    ELSE [file.data EXCEPT !.grammar_errors_raw = ListOfLists(@),
                           !.style_errors_raw = ListOfLists(@)]

StatePaths == { "state.json", "state.toml" }

\* the (error_text, explanation) pairs a raw list may hold
RawPairs == { << >>, << <<<<"a">>, <<"x">>>> >>,
              << <<<<"a">>, <<"x">>>>, <<EmptyStr, <<"y">>>> >> }
RawLists ==
    { AsCheckWritingReturns(pairs) : pairs \in RawPairs }
    \cup { AsListOfLists(pairs) : pairs \in RawPairs }

\* fields with HTML in them
BoldA == <<"<","b",">","a","<","/","b",">">>
SpanA == <<"<","s","p","a","n",">","a","<","/","s","p","a","n",">">>

InitState ==
    /\ pc = "idle"
    /\ fn = "none"
    /\ outcome = "none"
    /\ \E sel \in Selections, shown \in {EmptyStr, <<"a">>, BoldA},
          mistakes \in {EmptyStr, SpanA}, g \in RawLists, st \in RawLists :
          state = [LanguageTutorState EXCEPT
                       !.selected_language = sel.language,
                       !.selected_exercise = sel.exercise,
                       !.generated_exercise = shown,
                       !.writing_mistakes = mistakes,
                       !.grammar_errors_raw = g,
                       !.style_errors_raw = st]
    /\ core = NoCore
    /\ controller = AppController_init
    /\ qa_dialog = QADialog_init
    /\ disk = NoFile
    /\ loaded_state = NotLoaded
    /\ markdown = EmptyStr
    /\ llm_result = [status |-> "none", content |-> EmptyStr]
    /\ XmlAtRest /\ GenAtRest /\ AnnAtRest /\ ChkAtRest /\ LocAtRest
    /\ HdlAtRest /\ AdpAtRest /\ CmpAtRest /\ CncAtRest /\ SlotAtRest

StateFrame ==
    UNCHANGED <<outcome, xmlVars, llm_result, genVars, annVars, chkVars, locVars,
                hdlVars, adpVars, cmpVars, ctlVars, cncVars, slotVars>>

\* state.py lines 30-45
Save ==
    /\ pc = "idle"
    /\ \E path \in StatePaths : disk' = save(state, path)
    /\ fn' = "save"
    /\ pc' = "saved"
    /\ UNCHANGED <<loaded_state, markdown>>
    /\ StateFrame

\* state.py lines 47-64
Load ==
    /\ pc \in {"idle", "saved"}
    /\ loaded_state' = [loaded |-> TRUE, state |-> load(disk)]
    /\ fn' = "load"
    /\ pc' = "done"
    /\ UNCHANGED <<disk, markdown>>
    /\ StateFrame

\* state.py line 83: value if value else "None."
OrNoneDot(value) == IF value # EmptyStr THEN value ELSE <<"None.">>

\* state.py lines 67-98: the fields put into the template as they are
to_markdown(st) ==
    <<"# Language Tutor Export\n\n**Language:** ", st.selected_language,
      "\n**Level:** ", st.selected_level,
      "\n**Exercise Type:** ", st.selected_exercise,
      "\n\n## Exercise\n">> \o st.generated_exercise
    \o <<"\n\n## Hints\n">> \o OrNoneDot(st.generated_hints)
    \o <<"\n\n## Your Writing\n">> \o st.writing_input
    \o <<"\n\n## Mistakes\n">> \o OrNoneDot(st.writing_mistakes)
    \o <<"\n\n## Stylistic Errors\n">> \o OrNoneDot(st.style_errors)
    \o <<"\n\n## Recommendations\n">> \o OrNoneDot(st.recommendations)
    \o <<"\n">>

\* state.py lines 67-98
ToMarkdown ==
    /\ pc = "idle"
    /\ markdown' = to_markdown(state)
    /\ fn' = "to_markdown"
    /\ pc' = "done"
    /\ UNCHANGED <<disk, loaded_state>>
    /\ StateFrame

NextState ==
    \/ Save
    \/ Load
    \/ ToMarkdown

SpecState == InitState /\ [][NextState]_vars

(* C25: a LanguageTutorState saved to a .json or .toml path and loaded     *)
(* back from it is equal to the saved state in every field, the raw        *)
(* grammar-error and style-error lists as check_writing produces them      *)
(* included.                                                               *)
C25_SaveLoadRoundTrip ==
    (pc = "done" /\ fn = "load" /\ disk.exists) =>
        loaded_state = [loaded |-> TRUE, state |-> state]

\* s holds the opening of an HTML tag
HoldsTag(s) == \E i \in 1..Len(s) : s[i] = "<"

(* C26: the Markdown export holds none of the HTML tags of the exercise,   *)
(* hints, writing, mistakes, style and recommendation fields of the state. *)
C26_MarkdownWithoutTags ==
    (pc = "done" /\ fn = "to_markdown") => ~HoldsTag(markdown)

-----------------------------------------------------------------------------
(* Specification SpecSlots: the slots of AppController called from the     *)
(* window while requests are pending (app_controller.py, async_runner.py)  *)

\* the requests a window session issues at most
MaxTasks == 2

\* app_controller.py lines 423-428: the tables of a language, named by the
\* language; "" names the empty tables of a language with no entry
TablesOf(language) ==
    IF language \in {"en", "pl", "pt"}
    THEN [exercise_types |-> language, exercise_definitions |-> language]
    ELSE NoTables

\* app_controller.py lines 423-431
_reload_definitions(st) == TablesOf(st.selected_language)

\* the window lets a button be clicked while the controller says it is
\* enabled
ButtonClickable(ctl, kind) ==
    IF kind = "generate" THEN ctl.generate_button_enabled
    ELSE ctl.check_button_enabled

\* async_runner.py line 41: the coroutine of a slot, not yet started
NewTask(kind) ==
    [kind |-> kind, pc |-> "created", awaits |-> "none",
     exercise_text |-> EmptyStr, outcome |-> "none", exception |-> "none"]

\* the coroutine ran up to its await, or returned before it; the exercise
\* text is the argument of check_writing (app_controller.py line 582)
Started(task, begun, st) ==
    [task EXCEPT !.pc = IF begun.awaits = "none" THEN "finished" ELSE "awaiting",
                 !.awaits = begun.awaits,
                 !.exercise_text = IF begun.awaits = "check_writing"
                                   THEN st.generated_exercise ELSE EmptyStr]

\* a request is in flight from the await of the coroutine to its return
InFlight(kind) ==
    { i \in DOMAIN tasks : tasks[i].kind = kind /\ tasks[i].pc = "awaiting" }

\* asyncio starts the coroutines in the order of their creation
NextToStart ==
    { i \in DOMAIN tasks :
        /\ tasks[i].pc = "created"
        /\ \A j \in 1..(i - 1) : tasks[j].pc # "created" }

\* app_controller.py lines 287-303, the buttons and the status message
SetExerciseTypeShows(ctl, exercise_type) ==
    IF exercise_type = "Custom"
    THEN Shows([ctl EXCEPT !.generate_button_text = "Generate Hints"],
               Status("Custom exercise selected. Edit the task above.",
                      NoCost, "none"))
    ELSE Shows([ctl EXCEPT !.generate_button_text = "Generate Exercise"],
               Status("Exercise type set to", NoCost, "none"))

\* app_controller.py lines 467-473
_restore_ui_from_state(st, ctl) ==
    [ctl EXCEPT !.generate_button_text =
                    IF st.selected_exercise = "Custom" THEN "Generate Hints"
                    ELSE "Generate Exercise"]

\* the state files an earlier session may have left
SavedStates ==
    { [LanguageTutorState EXCEPT !.selected_language = "en",
                                 !.selected_exercise = "Custom",
                                 !.generated_exercise = <<"a">>],
      [LanguageTutorState EXCEPT !.selected_language = "pl",
                                 !.selected_exercise = "Essay"] }

InitSlots ==
    /\ pc = "idle"
    /\ fn = "none"
    /\ outcome = "none"
    /\ adapter = "none"
    /\ Constructed(ConfiguredEnviron)
    /\ \E language \in {"", "pl"} :
          state = [LanguageTutorState EXCEPT !.selected_language = language]
    /\ exercise_tables = _reload_definitions(state)
    /\ controller = AppController_init
    /\ core = NoCore
    /\ qa_dialog = QADialog_init
    /\ tasks = << >>
    /\ disk \in {NoFile} \cup { save(st, "state.json") : st \in SavedStates }
    /\ loaded_state = NotLoaded
    /\ markdown = EmptyStr
    /\ llm_result = [status |-> "none", content |-> EmptyStr]
    /\ XmlAtRest /\ GenAtRest /\ AnnAtRest /\ ChkAtRest /\ LocAtRest
    /\ HdlAtRest /\ CmpAtRest /\ CncAtRest

\* what a step of this specification leaves alone
SlotsFrame ==
    UNCHANGED <<pc, fn, outcome, xmlVars, llm_result, genVars, annVars, chkVars,
                locVars, hdlVars, adpVars, cmpVars, core, qa_dialog, cncVars,
                fileVars>>

\* app_controller.py lines 264-274
SetLanguage ==
    /\ \E language_code \in {"en", "pl"} :
          /\ state.selected_language # language_code
          /\ state' = [state EXCEPT !.selected_language = language_code]
    /\ exercise_tables' = _reload_definitions(state')
    /\ controller' = Shows(controller, Status("Language set to", NoCost, "none"))
    /\ UNCHANGED tasks
    /\ SlotsFrame

\* app_controller.py lines 287-303
SetExerciseType ==
    /\ \E exercise_type \in {"Essay", "Custom"} :
          /\ state.selected_exercise # exercise_type
          /\ state' = [state EXCEPT !.selected_exercise = exercise_type]
          /\ controller' = SetExerciseTypeShows(controller, exercise_type)
    /\ UNCHANGED <<tasks, exercise_tables>>
    /\ SlotsFrame

\* app_controller.py lines 305-311
SetWritingInput ==
    /\ \E written \in {<<"b">>} :
          /\ state.writing_input # written
          /\ state' = [state EXCEPT !.writing_input = written]
    /\ UNCHANGED <<controller, tasks, exercise_tables>>
    /\ SlotsFrame

\* app_controller.py lines 339-351
LoadState ==
    /\ IF disk.exists
       THEN /\ state' = load(disk)
            /\ controller' = Shows(_restore_ui_from_state(state', controller),
                                   Status("State loaded successfully.", NoCost, "none"))
            /\ UNCHANGED exercise_tables
       ELSE /\ controller' = Shows(controller,
                                   Status("No saved state found.", NoCost, "none"))
            /\ UNCHANGED <<state, exercise_tables>>
    /\ UNCHANGED tasks
    /\ SlotsFrame

\* app_controller.py lines 319-322 and async_runner.py line 41: the slot
\* creates the coroutine; the window calls it from the button
GenerateExerciseSlot ==
    /\ ButtonClickable(controller, "generate")
    /\ Len(tasks) < MaxTasks
    /\ tasks' = Append(tasks, NewTask("generate"))
    /\ UNCHANGED <<state, controller, exercise_tables>>
    /\ SlotsFrame

\* app_controller.py lines 324-327 and async_runner.py line 41
CheckWritingSlot ==
    /\ ButtonClickable(controller, "check")
    /\ Len(tasks) < MaxTasks
    /\ tasks' = Append(tasks, NewTask("check"))
    /\ UNCHANGED <<state, controller, exercise_tables>>
    /\ SlotsFrame

\* async_runner.py lines 45-47: the loop runs the coroutine up to its await
\* (app_controller.py lines 479-530 and 560-577)
CoroutineStarts ==
    /\ \E i \in NextToStart :
          LET begun == IF tasks[i].kind = "generate"
                       THEN GenerateExerciseBegin(state, controller, World)
                       ELSE CheckWritingBegin(state, controller, World)
          IN  /\ state' = begun.state
              /\ controller' = begun.controller
              /\ tasks' = [tasks EXCEPT ![i] = Started(@, begun, state)]
    /\ UNCHANGED exercise_tables
    /\ SlotsFrame

\* what has come of the awaited call of a coroutine
CallOf(task, how, e, c) ==
    [NoCore EXCEPT !.fn = task.awaits, !.calls = 1, !.outcome = how,
                   !.exception = e, !.cost = c]

\* app_controller.py lines 495-512, 530-556 and 577-612: the coroutine after
\* its await
CoroutineEnd(task, st, ctl, c) ==
    CASE task.awaits = "generate_custom_hints" ->
            CustomHintsEnd(st, ctl, c, <<"h">>)
      [] task.awaits = "generate_exercise" ->
            GenerateExerciseEnd(st, ctl, c, <<"x">>, <<"h">>)
      [] OTHER ->
            CheckWritingEnd(st, ctl, c, << >>, << >>, <<"r">>)

CoroutineResumes(i, how, e, c) ==
    /\ tasks[i].pc = "awaiting"
    /\ LET ended == CoroutineEnd(tasks[i], state, controller,
                                 CallOf(tasks[i], how, e, c))
       IN  /\ state' = ended.state
           /\ controller' = ended.controller
    /\ tasks' = [tasks EXCEPT ![i].pc = "finished", ![i].outcome = how,
                              ![i].exception = e]
    /\ UNCHANGED exercise_tables
    /\ SlotsFrame

\* the awaited core function returns
RequestReturns ==
    \E i \in DOMAIN tasks : CoroutineResumes(i, "returned", "none", Amount(1))

\* the awaited core function raises
RequestRaises ==
    \E i \in DOMAIN tasks, e \in {"APIConnectionError"} :
        CoroutineResumes(i, "raised", e, NoCost)

NextSlots ==
    \/ SetLanguage
    \/ SetExerciseType
    \/ SetWritingInput
    \/ LoadState
    \/ GenerateExerciseSlot
    \/ CheckWritingSlot
    \/ CoroutineStarts
    \/ RequestReturns
    \/ RequestRaises

SpecSlots == InitSlots /\ [][NextSlots]_vars

(* C27: whenever a generate (check) request is in flight the generate      *)
(* (check) button is disabled, also while other slots run, and whenever no *)
(* such request is in flight the button is enabled.                        *)
C27_ButtonDisabledInFlight ==
    /\ controller.generate_button_enabled = (InFlight("generate") = {})
    /\ controller.check_button_enabled = (InFlight("check") = {})

(* C28: after any sequence of setLanguage and loadState calls the          *)
(* controller's exercise_definitions and exercise_types are the tables of  *)
(* state.selected_language.                                                *)
C28_TablesOfSelectedLanguage ==
    exercise_tables = TablesOf(state.selected_language)

(* C29: whenever no generate request is in flight, the text of the         *)
(* generate button is "Generate Hints" exactly when the selected exercise  *)
(* type is "Custom" and "Generate Exercise" otherwise.                     *)
C29_ButtonTextOfSelection ==
    InFlight("generate") = {} =>
        controller.generate_button_text =
            IF state.selected_exercise = "Custom" THEN "Generate Hints"
            ELSE "Generate Exercise"

\* the generated exercise is the text of a failed generation
HoldsErrorText(st) ==
    \E e \in BackendErrors : st.generated_exercise = ErrorText(e)

\* coroutine i is a generation whose awaited call raises in this step
GenerationFails(i) ==
    /\ tasks[i].awaits = "generate_exercise"
    /\ tasks[i].pc = "awaiting"
    /\ tasks'[i].outcome = "raised"

\* coroutine i is a check that starts in this step over the text of a
\* failed generation and some writing
CheckStartsOverError(i) ==
    /\ tasks[i].kind = "check"
    /\ tasks[i].pc = "created"
    /\ tasks'[i].pc # "created"
    /\ HoldsErrorText(state)
    /\ state.writing_input # EmptyStr

(* C30: a generation request that fails puts "Error: <message>" in place   *)
(* of the generated exercise and leaves the hints as they were, and a      *)
(* later checkWriting passes its guard and sends that text to the backend  *)
(* as the exercise.                                                        *)
C30_ErrorTextIsTheExercise ==
    [][\A i \in DOMAIN tasks :
          /\ GenerationFails(i) =>
                /\ state'.generated_exercise = ErrorText(tasks'[i].exception)
                /\ state'.generated_hints = state.generated_hints
          /\ CheckStartsOverError(i) =>
                /\ tasks'[i].pc = "awaiting"
                /\ tasks'[i].exercise_text = state.generated_exercise]_vars

C30_Witness ==
    \E i \in DOMAIN tasks, j \in DOMAIN tasks :
        /\ tasks[i].awaits = "generate_exercise"
        /\ tasks[i].outcome = "raised"
        /\ tasks[j].kind = "check"
        /\ tasks[j].pc = "awaiting"
        /\ tasks[j].exercise_text = ErrorText(tasks[i].exception)

=============================================================================
